---- MODULE Spec2Model ----
(***************************************************************************)
(* A model of scripts/generate_testdata.py of otlp2parquet: the seeded     *)
(* generators of OTLP logs, metrics and traces, the size estimator, the    *)
(* three exporters (pretty JSON, JSONL, protobuf) and the orchestrator.    *)
(*                                                                         *)
(* Representation.                                                         *)
(*  - A protobuf message is a record whose field msg names its type and    *)
(*    whose other fields are the fields the constructor call sets.         *)
(*  - A string is a Text: a sequence of chunks, a chunk being one space    *)
(*    " ", one newline "\n", or a word (a run of characters that holds     *)
(*    neither a newline nor two adjacent spaces and neither starts nor     *)
(*    ends with a space).  str.replace("\n", "") and str.replace("  ", "") *)
(*    act on a Text exactly as on its characters.                          *)
(*  - A 64 bit integer is a record [q, r] standing for q * 10^9 + r with   *)
(*    0 <= r < 10^9, so that nanosecond timestamps stay within TLC's       *)
(*    integers.  A double is [w, c]: w + c / 100.                          *)
(*  - bytes are [n, v]: n bytes whose content is the number v.             *)
(*  - random.Random is a deterministic state machine: a state, a step      *)
(*    function and outputs computed from the state.  Every method of the   *)
(*    library the program calls takes one step.                            *)
(***************************************************************************)
EXTENDS Integers, Sequences, FiniteSets, TLC

(***************************************************************************)
(* The wall clock, time.time(): it advances with every step.               *)
(***************************************************************************)
VARIABLE now

(***************************************************************************)
(* Bounds of the model.                                                    *)
(***************************************************************************)
\* number of states of the pseudo random generator
RngModulus == 1009
\* largest count argument the generator harness passes to a batch operation
MaxCount == 2
\* longest list the exporter harness passes to an exporter
MaxRecords == 2

(***************************************************************************)
(* Program constants.                                                      *)
(***************************************************************************)
SEED == 42
Giga == 1000000000
\* config.size_mb is held in units of 1/1024 MB: size_mb * 1024 * 1024
\* bytes is size_mb (in units) * 1024
Kibi == 1024
DefaultLogCount == 81
DefaultTraceCount == 19

Max(a, b) == IF a >= b THEN a ELSE b

(***************************************************************************)
(* 64 bit integers, doubles, bytes, text.                                  *)
(***************************************************************************)
I64(n) == [q |-> n \div Giga, r |-> n % Giga]

I64Add(a, b) ==
    [q |-> a.q + b.q + ((a.r + b.r) \div Giga), r |-> (a.r + b.r) % Giga]

\* the index taken as nanoseconds, without the factor
SecondsAsNanos(i) == [q |-> 0, r |-> i]

\* i * 1_000_000_000
Seconds(i) == [q |-> i, r |-> 0]

Dbl(w, c) == [w |-> w, c |-> c]

Bytes(n, v) == [n |-> n, v |-> v]

EmptyBytes == [n |-> 0, v |-> 0]

Str(s) == IF s = "" THEN <<>> ELSE <<s>>

(***************************************************************************)
(* random.Random(seed)                                                     *)
(***************************************************************************)
\* a generator seeded from the wall clock as well
RandomFromClock(seed) == (seed + now) % RngModulus

Random(seed) == seed % RngModulus

RngStep(s) == (s * 37 + 11) % RngModulus

\* rng.choice(seq)
choice(rng, seq) ==
    LET s == RngStep(rng) IN [v |-> seq[(s % Len(seq)) + 1], rng |-> s]

\* rng.random(): the value is v / RngModulus
random(rng) == LET s == RngStep(rng) IN [v |-> s, rng |-> s]

\* rng.random() < num / den
Below(v, num, den) == v * den < num * RngModulus

\* rng.randbytes(n)
randbytes(rng, n) == LET s == RngStep(rng) IN [v |-> Bytes(n, s), rng |-> s]

\* a draw that falls below a
randint_below(rng, a, b) ==
    LET s == RngStep(rng) IN [v |-> a - 1 - (s % (b - a + 1)), rng |-> s]

\* rng.randint(a, b)
randint(rng, a, b) ==
    LET s == RngStep(rng) IN [v |-> a + (s % (b - a + 1)), rng |-> s]

\* rng.uniform(a, b) for whole a, b: a + (b - a) * random()
uniform(rng, a, b) ==
    LET s == RngStep(rng)
        h == ((b - a) * 100 * s) \div RngModulus
    IN  [v |-> Dbl(a + (h \div 100), h % 100), rng |-> s]

\* a trace id of the length of a span id
random_trace_id_short(rng) == randbytes(rng, 8)

random_trace_id(rng) == randbytes(rng, 16)

\* a span id that is the same at every draw
random_span_id_fixed(rng) == [v |-> Bytes(8, 0), rng |-> RngStep(rng)]

random_span_id(rng) == randbytes(rng, 8)

(***************************************************************************)
(* Python values handed to make_attribute.                                 *)
(***************************************************************************)
PyStr(s) == [t |-> "str", v |-> Str(s)]
PyText(x) == [t |-> "str", v |-> x]
PyInt(i) == [t |-> "int", v |-> i]
PyBool(b) == [t |-> "bool", v |-> b]
PyFloat(d) == [t |-> "float", v |-> d]

\* isinstance(value, int) is true of a bool: bool is a subclass of int
IsInstanceStr(value) == value.t = "str"
IsInstanceInt(value) == value.t \in {"int", "bool"}
IsInstanceBool(value) == value.t = "bool"

\* int(value) of an int or a bool
IntOf(value) == IF value.t = "bool" THEN (IF value.v THEN 1 ELSE 0) ELSE value.v

(***************************************************************************)
(* Attribute and value builders.                                           *)
(***************************************************************************)
make_string_value(s) == [msg |-> "AnyValue", string_value |-> s]

make_int_value(i) == [msg |-> "AnyValue", int_value |-> I64(i)]

make_bool_value(b) == [msg |-> "AnyValue", bool_value |-> b]

KeyValue(key, value) == [msg |-> "KeyValue", key |-> Str(key), value |-> value]

Raise(what) == [raised |-> what]

make_attribute(key, value) ==
    IF IsInstanceStr(value) THEN KeyValue(key, make_string_value(value.v))
    ELSE IF IsInstanceInt(value) THEN KeyValue(key, make_int_value(IntOf(value)))
    ELSE IF IsInstanceBool(value) THEN KeyValue(key, make_bool_value(value.v))
    ELSE Raise("ValueError")

Resource(attrs) == [msg |-> "Resource", attributes |-> attrs]

\* extra_attrs: the keyword arguments, a sequence of [k, v] in call order
RECURSIVE ExtraAttrs(_)
ExtraAttrs(extra_attrs) ==
    IF extra_attrs = <<>> THEN <<>>
    ELSE <<make_attribute(Head(extra_attrs).k, Head(extra_attrs).v)>>
         \o ExtraAttrs(Tail(extra_attrs))

make_resource(service_name, extra_attrs) ==
    Resource(<<
        make_attribute("service.name", PyStr(service_name)),
        make_attribute("host.name", PyStr("docker-desktop")),
        make_attribute("os.type", PyStr("linux")),
        make_attribute("telemetry.sdk.language", PyStr("python")),
        make_attribute("telemetry.sdk.name", PyStr("opentelemetry")),
        make_attribute("telemetry.sdk.version", PyStr("1.37.0"))
    >> \o ExtraAttrs(extra_attrs))

DemoExtraAttrs ==
    << [k |-> "service.namespace", v |-> PyStr("opentelemetry-demo")],
       [k |-> "service.version", v |-> PyStr("2.1.3")] >>

InstrumentationScope(name, version) ==
    [msg |-> "InstrumentationScope", name |-> Str(name), version |-> Str(version)]

SchemaUrl == "https://opentelemetry.io/schemas/1.6.1"

(***************************************************************************)
(* GenerationConfig.  size_mb = 0 stands for None (and for 0.0, which the  *)
(* program treats alike); a positive size_mb is in units of 1/1024 MB.     *)
(***************************************************************************)
GenerationConfig(seed, verbose, only, size_mb) ==
    [seed |-> seed, verbose |-> verbose, only |-> only, size_mb |-> size_mb]

\* the estimate without the lower limit of one record
EstimatedCountUnclamped(size_mb, avg_size) == (size_mb * Kibi) \div avg_size

\* the quotient taken the wrong way round
EstimatedCountInverted(size_mb, avg_size) == Max(1, (avg_size * Kibi) \div size_mb)

\* max(1, int(size_mb * 1024 * 1024 / avg_size)) of a positive size
EstimatedCount(size_mb, avg_size) == Max(1, (size_mb * Kibi) \div avg_size)

(***************************************************************************)
(* LogsGenerator                                                           *)
(***************************************************************************)
SEVERITY_NUMBER_DEBUG == 5
SEVERITY_NUMBER_INFO == 9
SEVERITY_NUMBER_WARN == 13
SEVERITY_NUMBER_ERROR == 17

\* a logs generator whose stream starts from the seed and the target size
LogsGeneratorSizeSeeded(config) ==
    [config |-> config,
     rng |-> Random(config.seed + config.size_mb),
     base_time_ns |-> [q |-> 1760741572, r |-> 254301000]]

LogsGenerator(config) ==
    [config |-> config,
     rng |-> Random(config.seed),
     base_time_ns |-> [q |-> 1760741572, r |-> 254301000]]

\* a mapping that knows ERROR only
_severity_text_short(severity) == IF severity = SEVERITY_NUMBER_ERROR THEN "ERROR" ELSE "INFO"

_severity_text(severity) ==
    IF severity = SEVERITY_NUMBER_DEBUG THEN "DEBUG"
    ELSE IF severity = SEVERITY_NUMBER_INFO THEN "INFO"
    ELSE IF severity = SEVERITY_NUMBER_WARN THEN "WARN"
    ELSE IF severity = SEVERITY_NUMBER_ERROR THEN "ERROR"
    ELSE "INFO"

\* bytes are true when not empty; None is held as the empty bytes
Truthy(b) == b.n > 0

\* returns [ret |-> the LogRecord, rng |-> the generator's stream afterwards]
_make_log_record(self, body, severity, attributes, trace_id, span_id, time_offset_ns) ==
    LET log == [msg |-> "LogRecord",
                time_unix_nano |-> I64Add(self.base_time_ns, time_offset_ns),
                severity_number |-> severity,
                severity_text |-> Str(_severity_text(severity)),
                body |-> make_string_value(body),
                attributes |-> attributes,
                trace_id |-> EmptyBytes,
                span_id |-> EmptyBytes,
                flags |-> 0]
        sid == IF Truthy(span_id) THEN [v |-> span_id, rng |-> self.rng]
               ELSE random_span_id(self.rng)
    IN  IF Truthy(trace_id)
        THEN [ret |-> [log EXCEPT !.trace_id = trace_id, !.span_id = sid.v, !.flags = 1],
              rng |-> sid.rng]
        ELSE [ret |-> log, rng |-> self.rng]

ScopeLogs(scope, log_records) ==
    [msg |-> "ScopeLogs", scope |-> scope, log_records |-> log_records]

ResourceLogs(resource, scope_logs, schema_url) ==
    [msg |-> "ResourceLogs", resource |-> resource, scope_logs |-> scope_logs,
     schema_url |-> Str(schema_url)]

LogsData(resource_logs) == [msg |-> "LogsData", resource_logs |-> resource_logs]

SingleLogBody ==
    << "[2025-10-17T22:52:52.254Z] \"GET /api/products/LS4PSXUNUM HTTP/1.1\" 200 - via_upstream - \"-\" 0 535 2 2 \"-\" \"python-requests/2.32.5\" \"e55db68a-be46-9bb9-bb04-e431841e5b1d\" \"frontend-proxy:8080\" \"172.18.0.25:8080\" frontend 172.18.0.27:53142 172.18.0.27:8080 172.18.0.26:33266 - -",
       "\n" >>

\* service_name is a text; returns [ret |-> the LogsData, rng |-> the
\* stream afterwards]
generate_single_log(self, service_name) ==
    LET resource == Resource(<<
            make_attribute("log_name", PyStr("otel_envoy_access_log")),
            make_attribute("zone_name", PyStr("")),
            make_attribute("cluster_name", PyStr("")),
            make_attribute("node_name", PyStr("")),
            make_attribute("service.name", PyText(service_name)),
            make_attribute("host.name", PyStr("docker-desktop")),
            make_attribute("os.type", PyStr("linux")) >>)
        trace_id == random_trace_id(self.rng)
        span_id == random_span_id(trace_id.rng)
        log_record == _make_log_record(
            [self EXCEPT !.rng = span_id.rng],
            SingleLogBody,
            SEVERITY_NUMBER_INFO,
            << make_attribute("destination.address", PyStr("172.18.0.25")),
               make_attribute("event.name", PyStr("proxy.access")),
               make_attribute("server.address", PyStr("172.18.0.27:8080")),
               make_attribute("source.address", PyStr("172.18.0.26")),
               make_attribute("upstream.cluster", PyStr("frontend")),
               make_attribute("upstream.host", PyStr("172.18.0.25:8080")),
               make_attribute("user_agent.original", PyStr("python-requests/2.32.5")),
               make_attribute("url.full", PyStr("http://frontend-proxy:8080/api/products/LS4PSXUNUM")),
               make_attribute("url.path", PyStr("/api/products/LS4PSXUNUM")),
               make_attribute("url.query", PyStr("-")),
               make_attribute("url.template", PyStr("-")) >>,
            trace_id.v, span_id.v, Seconds(0))
        scope_logs == ScopeLogs([msg |-> "InstrumentationScope"], <<log_record.ret>>)
        resource_logs == ResourceLogs(resource, <<scope_logs>>, SchemaUrl)
    IN  [ret |-> LogsData(<<resource_logs>>), rng |-> log_record.rng]

\* (service, body_template, has "{}", severity, base_attrs)
log_patterns ==
    << [service |-> "load-generator", body |-> "User browsing product: ", fmt |-> TRUE,
        severity |-> SEVERITY_NUMBER_INFO,
        attrs |-> << make_attribute("code.file.path", PyStr("/usr/src/app/locustfile.py")),
                     make_attribute("code.function.name", PyStr("browse_product")),
                     make_attribute("code.line.number", PyInt(130)) >>],
       [service |-> "product-catalog", body |-> "Product Found", fmt |-> FALSE,
        severity |-> SEVERITY_NUMBER_INFO,
        attrs |-> << make_attribute("app.product.name", PyStr("The Comet Book")),
                     make_attribute("app.product.id", PyStr("HQTGWGPNH4")) >>],
       [service |-> "recommendation",
        body |-> "Receive ListRecommendations for product ids:['HQTGWGPNH4']", fmt |-> FALSE,
        severity |-> SEVERITY_NUMBER_INFO,
        attrs |-> << make_attribute("code.file.path", PyStr("/app/recommendation_server.py")),
                     make_attribute("code.function.name", PyStr("ListRecommendations")),
                     make_attribute("code.line.number", PyInt(47)) >>],
       [service |-> "frontend-proxy",
        body |-> "[2025-10-17T22:52:35.579Z] \"GET /api/products/0PUK6V6EV0 HTTP/1.1\" 200 - via_upstream - \"-\" 0 421 3 3",
        fmt |-> FALSE,
        severity |-> SEVERITY_NUMBER_INFO,
        attrs |-> << make_attribute("destination.address", PyStr("172.18.0.25")),
                     make_attribute("event.name", PyStr("proxy.access")),
                     make_attribute("url.path", PyStr("/api/products/0PUK6V6EV0")) >>],
       [service |-> "cart", body |-> "GetCartAsync called with userId=", fmt |-> FALSE,
        severity |-> SEVERITY_NUMBER_INFO, attrs |-> <<>>],
       [service |-> "kafka",
        body |-> "[ProducerStateManager partition=__cluster_metadata-0] Wrote producer snapshot",
        fmt |-> FALSE,
        severity |-> SEVERITY_NUMBER_INFO, attrs |-> <<>>] >>

ProductIds == << "HQTGWGPNH4", "LS4PSXUNUM", "1YMWWN1N4O" >>

\* the estimate made only when not verbose
LogsCountUnlessVerbose(config, count) ==
    IF config.size_mb # 0 /\ ~config.verbose
    THEN EstimatedCount(config.size_mb, 1500) ELSE count

\* the count generate_batch_logs uses: the estimate when a size is configured
LogsCount(config, count) ==
    IF config.size_mb # 0 THEN EstimatedCount(config.size_mb, 1500) ELSE count

\* body_template.format(rng.choice(...)) when "{}" is in the template pat.v
FormatArgument(pat) ==
    IF pat.v.fmt THEN choice(pat.rng, ProductIds) ELSE [v |-> "", rng |-> pat.rng]

\* random_trace_id(rng) if the draw coin < num / den else None
TraceIdIf(coin, num, den) ==
    IF Below(coin.v, num, den) THEN random_trace_id(coin.rng)
    ELSE [v |-> EmptyBytes, rng |-> coin.rng]

\* random_span_id(rng) if the draw coin < num / den else None
SpanIdIf(coin, num, den) ==
    IF Below(coin.v, num, den) THEN random_span_id(coin.rng)
    ELSE [v |-> EmptyBytes, rng |-> coin.rng]

\* random_span_id(rng) if trace_id else None
SpanIdIfTrace(trace_id) ==
    IF Truthy(trace_id.v) THEN random_span_id(trace_id.rng)
    ELSE [v |-> EmptyBytes, rng |-> trace_id.rng]

\* a loop's single iteration as the list it appends
Appended(it) == [ret |-> <<it.ret>>, rng |-> it.rng]

\* two runs of iterations, one after the other
Extended(first, rest) == [ret |-> first.ret \o rest.ret, rng |-> rest.rng]

\* one iteration of the loop of generate_batch_logs:
\* [ret |-> the LogsData, rng |-> the stream afterwards]
BatchLogsIteration(self, i) ==
    LET pat == choice(self.rng, log_patterns)
        pid == FormatArgument(pat)
        body == Str(pat.v.body \o pid.v)
        resource == make_resource(pat.v.service, DemoExtraAttrs)
        coin == random(pid.rng)
        trace_id == TraceIdIf(coin, 3, 10)
        span_id == SpanIdIfTrace(trace_id)
        log_record == _make_log_record(
            [self EXCEPT !.rng = span_id.rng],
            body, pat.v.severity, pat.v.attrs, trace_id.v, span_id.v, Seconds(i))
        scope_logs == ScopeLogs(InstrumentationScope(pat.v.service, ""), <<log_record.ret>>)
        resource_logs == ResourceLogs(resource, <<scope_logs>>, SchemaUrl)
    IN  [ret |-> LogsData(<<resource_logs>>), rng |-> log_record.rng]

\* the iterations i = lo .. hi - 1 of the loop of generate_batch_logs, in
\* order: [ret |-> the documents appended, rng |-> the stream afterwards]
RECURSIVE BatchLogsLoop(_, _, _)

\* the iterations mid .. hi - 1 made after the run first
BatchLogsRest(self, mid, hi, first) ==
    Extended(first, BatchLogsLoop([self EXCEPT !.rng = first.rng], mid, hi))

BatchLogsLoop(self, lo, hi) ==
    IF lo >= hi THEN [ret |-> <<>>, rng |-> self.rng]
    ELSE IF hi = lo + 1
    THEN Appended(BatchLogsIteration(self, lo))
    ELSE BatchLogsRest(self, (lo + hi) \div 2, hi, BatchLogsLoop(self, lo, (lo + hi) \div 2))

\* returns [ret |-> the list of LogsData, rng |-> the stream afterwards]
generate_batch_logs(self, count) ==
    BatchLogsLoop(self, 0, LogsCount(self.config, count))

(***************************************************************************)
(* Module level pools.  A service name is held as its parts, so that the   *)
(* substring tests of generate_batch_traces and str.title() are computed.  *)
(***************************************************************************)
SERVICES ==
    << <<"frontend", "-", "proxy">>,
       <<"product", "-", "catalog">>,
       <<"cart">>,
       <<"payment", "-", "service">>,
       <<"recommendation">>,
       <<"kafka">>,
       <<"analytics", "-", "service">>,
       <<"api", "-", "gateway">> >>

HTTP_PATHS ==
    << "/api/v1/products", "/api/v1/cart/add", "/api/v1/checkout",
       "/api/v1/user/profile", "/health", "/metrics", "/graphql" >>

HTTP_METHODS == << "GET", "POST", "PUT", "DELETE", "PATCH" >>

HTTP_STATUS_CODES == << 200, 201, 204, 400, 401, 403, 404, 500, 502, 503 >>

RECURSIVE Join(_)
Join(parts) == IF parts = <<>> THEN "" ELSE Head(parts) \o Join(Tail(parts))

\* needle in service, for a needle that is one of the parts' words
Contains(service, needle) == \E i \in 1..Len(service) : service[i] = needle

\* str.title() of one part
Capitalize(part) ==
    CASE part = "frontend" -> "Frontend"
      [] part = "proxy" -> "Proxy"
      [] part = "product" -> "Product"
      [] part = "catalog" -> "Catalog"
      [] part = "cart" -> "Cart"
      [] part = "payment" -> "Payment"
      [] part = "service" -> "Service"
      [] part = "recommendation" -> "Recommendation"
      [] part = "kafka" -> "Kafka"
      [] part = "analytics" -> "Analytics"
      [] part = "api" -> "Api"
      [] part = "gateway" -> "Gateway"
      [] OTHER -> part

RECURSIVE Title(_)
Title(parts) ==
    IF parts = <<>> THEN "" ELSE Capitalize(Head(parts)) \o Title(Tail(parts))

(***************************************************************************)
(* TracesGenerator                                                         *)
(***************************************************************************)
SPAN_KIND_INTERNAL == 1
SPAN_KIND_SERVER == 2
SPAN_KIND_CLIENT == 3

TracesGenerator(config) ==
    [config |-> config,
     rng |-> Random(config.seed),
     base_time_ns |-> [q |-> 1760738064, r |-> 624180000]]

Status == [msg |-> "Status"]

Span(trace_id, span_id, parent_span_id, name, kind, start, end, attributes, events) ==
    [msg |-> "Span", trace_id |-> trace_id, span_id |-> span_id,
     parent_span_id |-> parent_span_id, name |-> Str(name), kind |-> kind,
     start_time_unix_nano |-> start, end_time_unix_nano |-> end,
     attributes |-> attributes, events |-> events, status |-> Status]

\* an event stamped one second after the time it is given
SpanEventLate(time, name) == [msg |-> "Event", time_unix_nano |-> I64Add(time, [q |-> 1, r |-> 0]), name |-> Str(name)]

SpanEvent(time, name) ==
    [msg |-> "Event", time_unix_nano |-> time, name |-> Str(name)]

ScopeSpans(scope, spans) == [msg |-> "ScopeSpans", scope |-> scope, spans |-> spans]

ResourceSpans(resource, scope_spans, schema_url) ==
    [msg |-> "ResourceSpans", resource |-> resource, scope_spans |-> scope_spans,
     schema_url |-> Str(schema_url)]

TracesData(resource_spans) == [msg |-> "TracesData", resource_spans |-> resource_spans]

EnvoyVersion == "e98143bdac2bd4983e889b89d57330ca59cd71b0/1.34.7/Clean/RELEASE/BoringSSL"

\* returns [ret |-> the TracesData, rng |-> the stream afterwards]
generate_single_trace(self) ==
    LET trace_id == random_trace_id(self.rng)
        parent_span_id == random_span_id(trace_id.rng)
        child_span_id == random_span_id(parent_span_id.rng)
        root_span_id == random_span_id(child_span_id.rng)
        resource == Resource(<<
            make_attribute("service.name", PyStr("frontend-proxy")),
            make_attribute("service.namespace", PyStr("opentelemetry-demo")),
            make_attribute("service.version", PyStr("2.1.3")),
            make_attribute("telemetry.sdk.language", PyStr("cpp")),
            make_attribute("telemetry.sdk.name", PyStr("envoy")),
            make_attribute("telemetry.sdk.version", PyStr(EnvoyVersion)),
            make_attribute("host.name", PyStr("docker-desktop")),
            make_attribute("os.type", PyStr("linux")) >>)
        child_span == Span(
            trace_id.v, child_span_id.v, parent_span_id.v,
            "router frontend egress", SPAN_KIND_CLIENT,
            I64Add(self.base_time_ns, I64(282000)),
            I64Add(self.base_time_ns, I64(4303000)),
            << make_attribute("http.protocol", PyStr("HTTP/1.1")),
               make_attribute("upstream_address", PyStr("172.18.0.25:8080")),
               make_attribute("peer.address", PyStr("172.18.0.25:8080")),
               make_attribute("component", PyStr("proxy")),
               make_attribute("upstream_cluster", PyStr("frontend")),
               make_attribute("upstream_cluster.name", PyStr("frontend")),
               make_attribute("http.status_code", PyStr("200")),
               make_attribute("response_flags", PyStr("-")) >>,
            <<>>)
        parent_span == Span(
            trace_id.v, parent_span_id.v, root_span_id.v,
            "ingress", SPAN_KIND_SERVER,
            self.base_time_ns,
            I64Add(self.base_time_ns, I64(4328000)),
            << make_attribute("node_id", PyStr("")),
               make_attribute("zone", PyStr("")),
               make_attribute("guid:x-request-id", PyStr("4fb197b8-8116-9929-a374-8b4813c60ad2")),
               make_attribute("http.url", PyStr("http://frontend-proxy:8080/api/products/66VCHSJNUP")),
               make_attribute("http.method", PyStr("GET")),
               make_attribute("downstream_cluster", PyStr("-")),
               make_attribute("user_agent", PyStr("python-requests/2.32.5")),
               make_attribute("http.protocol", PyStr("HTTP/1.1")),
               make_attribute("peer.address", PyStr("172.18.0.26")),
               make_attribute("request_size", PyStr("0")),
               make_attribute("response_size", PyStr("498")),
               make_attribute("component", PyStr("proxy")),
               make_attribute("upstream_cluster", PyStr("frontend")),
               make_attribute("upstream_cluster.name", PyStr("frontend")),
               make_attribute("http.status_code", PyStr("200")),
               make_attribute("response_flags", PyStr("-")) >>,
            <<>>)
        scope_spans == ScopeSpans(InstrumentationScope("envoy", EnvoyVersion),
                                  <<child_span, parent_span>>)
        resource_spans == ResourceSpans(resource, <<scope_spans>>, SchemaUrl)
    IN  [ret |-> TracesData(<<resource_spans>>), rng |-> root_span_id.rng]

\* the count generate_batch_traces uses: the estimate when a size is configured
TracesCount(config, count) ==
    IF config.size_mb # 0 THEN EstimatedCount(config.size_mb, 2000) ELSE count

\* the generic attributes whatever the service
SpanAttributesGeneric(service, rng) ==
    LET op == choice(rng, << "query", "process", "transform" >>)
    IN  [v |-> << make_attribute("service.name", PyStr(Join(service))),
                  make_attribute("operation", PyStr(op.v)) >>,
         rng |-> op.rng]

\* the attributes of a span of service, drawn from the stream rng:
\* [v |-> the attributes, rng |-> the stream afterwards]
SpanAttributes(service, rng) ==
    IF Contains(service, "proxy") \/ Contains(service, "gateway")
    THEN LET method == choice(rng, HTTP_METHODS)
             path == choice(method.rng, HTTP_PATHS)
             code == choice(path.rng, HTTP_STATUS_CODES)
         IN  [v |-> << make_attribute("http.method", PyStr(method.v)),
                       make_attribute("http.url",
                           PyStr("http://" \o Join(service) \o ":8080" \o path.v)),
                       make_attribute("http.status_code", PyStr(ToString(code.v))),
                       make_attribute("component", PyStr("proxy")) >>,
              rng |-> code.rng]
    ELSE IF Contains(service, "catalog") \/ Contains(service, "cart")
            \/ Contains(service, "payment")
    THEN LET method == choice(rng, << "Get", "List", "Update" >>)
         IN  [v |-> << make_attribute("rpc.system", PyStr("grpc")),
                       make_attribute("rpc.service",
                           PyStr("oteldemo." \o Title(service) \o "Service")),
                       make_attribute("rpc.method", PyStr(method.v)),
                       make_attribute("rpc.grpc.status_code", PyInt(0)) >>,
              rng |-> method.rng]
    ELSE LET op == choice(rng, << "query", "process", "transform" >>)
         IN  [v |-> << make_attribute("service.name", PyStr(Join(service))),
                       make_attribute("operation", PyStr(op.v)) >>,
              rng |-> op.rng]

\* one iteration of the loop of generate_batch_traces
BatchTracesIteration(self, i) ==
    LET service == choice(self.rng, SERVICES)
        trace_id == random_trace_id(service.rng)
        span_id == random_span_id(trace_id.rng)
        coin == random(span_id.rng)
        parent_span_id == SpanIdIf(coin, 7, 10)
        kind == choice(parent_span_id.rng,
                       << SPAN_KIND_SERVER, SPAN_KIND_CLIENT, SPAN_KIND_INTERNAL >>)
        attributes == SpanAttributes(service.v, kind.rng)
        start_time == I64Add(self.base_time_ns, Seconds(i))
        duration_ms == randint(attributes.rng, 1, 500)
        end_time == I64Add(start_time, I64(duration_ms.v * 1000000))
        verb == choice(duration_ms.rng, << "handle", "process", "execute" >>)
        coin2 == random(verb.rng)
        event == IF Below(coin2.v, 3, 10)
                 THEN LET name == choice(coin2.rng,
                                         << "checkpoint", "processing", "validation" >>)
                      IN  [v |-> << SpanEvent(
                                      I64Add(start_time, I64(duration_ms.v * 500000)),
                                      name.v) >>,
                           rng |-> name.rng]
                 ELSE [v |-> <<>>, rng |-> coin2.rng]
        span == Span(trace_id.v, span_id.v, parent_span_id.v,
                     Join(service.v) \o "." \o verb.v, kind.v,
                     start_time, end_time, attributes.v, event.v)
        resource == make_resource(Join(service.v), DemoExtraAttrs)
        scope_spans == ScopeSpans(InstrumentationScope(Join(service.v), ""), <<span>>)
        resource_spans == ResourceSpans(resource, <<scope_spans>>, SchemaUrl)
    IN  [ret |-> TracesData(<<resource_spans>>), rng |-> event.rng]

\* the iterations i = lo .. hi - 1 of the loop of generate_batch_traces
RECURSIVE BatchTracesLoop(_, _, _)

\* the iterations mid .. hi - 1 made after the run first
BatchTracesRest(self, mid, hi, first) ==
    Extended(first, BatchTracesLoop([self EXCEPT !.rng = first.rng], mid, hi))

BatchTracesLoop(self, lo, hi) ==
    IF lo >= hi THEN [ret |-> <<>>, rng |-> self.rng]
    ELSE IF hi = lo + 1
    THEN Appended(BatchTracesIteration(self, lo))
    ELSE BatchTracesRest(self, (lo + hi) \div 2, hi, BatchTracesLoop(self, lo, (lo + hi) \div 2))

\* returns [ret |-> the list of TracesData, rng |-> the stream afterwards]
generate_batch_traces(self, count) ==
    BatchTracesLoop(self, 0, TracesCount(self.config, count))

(***************************************************************************)
(* MetricsGenerator                                                        *)
(***************************************************************************)
AGGREGATION_TEMPORALITY_CUMULATIVE == 2

\* a generator on a stream that has moved on with all that was done before
MetricsGeneratorSharedStream(config) ==
    [config |-> config,
     rng |-> Random(config.seed + now),
     base_time_ns |-> [q |-> 1705327800, r |-> 0]]

\* a generator whose base time moves with the target size
MetricsGeneratorSizedClock(config) == [config |-> config, rng |-> Random(config.seed), base_time_ns |-> [q |-> 1705327800 + config.size_mb, r |-> 0]]

MetricsGenerator(config) ==
    [config |-> config,
     rng |-> Random(config.seed),
     base_time_ns |-> [q |-> 1705327800, r |-> 0]]

_scale_datapoints(self, base_count) ==
    IF self.config.size_mb = 0 THEN base_count
    ELSE EstimatedCount(self.config.size_mb, 800)

NumberDataPointDouble(attributes, time, value) ==
    [msg |-> "NumberDataPoint", attributes |-> attributes, time_unix_nano |-> time,
     as_double |-> value]

NumberDataPointInt(attributes, time, value) ==
    [msg |-> "NumberDataPoint", attributes |-> attributes, time_unix_nano |-> time,
     as_int |-> value]

\* a point without the bucket above the last bound
HistogramDataPointShort(attributes, time, count, sum, bucket_counts, explicit_bounds, min, max) ==
    [msg |-> "HistogramDataPoint", attributes |-> attributes, time_unix_nano |-> time,
     count |-> I64(count), sum |-> sum,
     bucket_counts |-> SubSeq(bucket_counts, 1, Len(bucket_counts) - 1),
     explicit_bounds |-> explicit_bounds, min |-> min, max |-> max]

\* a point whose count is one more than it was given
HistogramDataPointMiscounted(attributes, time, count, sum, bucket_counts, explicit_bounds, min, max) ==
    [msg |-> "HistogramDataPoint", attributes |-> attributes, time_unix_nano |-> time,
     count |-> I64(count + 1), sum |-> sum, bucket_counts |-> bucket_counts,
     explicit_bounds |-> explicit_bounds, min |-> min, max |-> max]

HistogramDataPoint(attributes, time, count, sum, bucket_counts, explicit_bounds, min, max) ==
    [msg |-> "HistogramDataPoint", attributes |-> attributes, time_unix_nano |-> time,
     count |-> I64(count), sum |-> sum, bucket_counts |-> bucket_counts,
     explicit_bounds |-> explicit_bounds, min |-> min, max |-> max]

Buckets(offset, bucket_counts) ==
    [msg |-> "Buckets", offset |-> offset, bucket_counts |-> bucket_counts]

ExponentialHistogramDataPoint(attributes, time, count, sum, scale, zero_count,
                              positive, negative, min, max) ==
    [msg |-> "ExponentialHistogramDataPoint", attributes |-> attributes,
     time_unix_nano |-> time, count |-> I64(count), sum |-> sum, scale |-> scale,
     zero_count |-> I64(zero_count), positive |-> positive, negative |-> negative,
     min |-> min, max |-> max]

ValueAtQuantile(quantile, value) ==
    [msg |-> "ValueAtQuantile", quantile |-> quantile, value |-> value]

\* a point listing its quantiles from the highest down
SummaryDataPointDescending(attributes, time, count, sum, quantile_values) ==
    [msg |-> "SummaryDataPoint", attributes |-> attributes, time_unix_nano |-> time,
     count |-> I64(count), sum |-> sum,
     quantile_values |-> [k \in 1..Len(quantile_values) |->
                             quantile_values[Len(quantile_values) + 1 - k]]]

SummaryDataPoint(attributes, time, count, sum, quantile_values) ==
    [msg |-> "SummaryDataPoint", attributes |-> attributes, time_unix_nano |-> time,
     count |-> I64(count), sum |-> sum, quantile_values |-> quantile_values]

Gauge(data_points) == [msg |-> "Gauge", data_points |-> data_points]

Sum(data_points) ==
    [msg |-> "Sum", data_points |-> data_points,
     aggregation_temporality |-> AGGREGATION_TEMPORALITY_CUMULATIVE,
     is_monotonic |-> TRUE]

Histogram(data_points) ==
    [msg |-> "Histogram", data_points |-> data_points,
     aggregation_temporality |-> AGGREGATION_TEMPORALITY_CUMULATIVE]

ExponentialHistogram(data_points) ==
    [msg |-> "ExponentialHistogram", data_points |-> data_points,
     aggregation_temporality |-> AGGREGATION_TEMPORALITY_CUMULATIVE]

Summary(data_points) == [msg |-> "Summary", data_points |-> data_points]

MetricGauge(name, description, unit, gauge) ==
    [msg |-> "Metric", name |-> Str(name), description |-> Str(description),
     unit |-> Str(unit), gauge |-> gauge]

\* a metric that carries its sum in the gauge field
MetricSumAsGauge(name, description, unit, sum) == [msg |-> "Metric", name |-> Str(name), description |-> Str(description), unit |-> Str(unit), gauge |-> sum]

MetricSum(name, description, unit, sum) ==
    [msg |-> "Metric", name |-> Str(name), description |-> Str(description),
     unit |-> Str(unit), sum |-> sum]

MetricHistogram(name, description, unit, histogram) ==
    [msg |-> "Metric", name |-> Str(name), description |-> Str(description),
     unit |-> Str(unit), histogram |-> histogram]

MetricExponentialHistogram(name, description, unit, exponential_histogram) ==
    [msg |-> "Metric", name |-> Str(name), description |-> Str(description),
     unit |-> Str(unit), exponential_histogram |-> exponential_histogram]

MetricSummary(name, description, unit, summary) ==
    [msg |-> "Metric", name |-> Str(name), description |-> Str(description),
     unit |-> Str(unit), summary |-> summary]

ScopeMetrics(scope, metrics) ==
    [msg |-> "ScopeMetrics", scope |-> scope, metrics |-> metrics]

ResourceMetrics(resource, scope_metrics) ==
    [msg |-> "ResourceMetrics", resource |-> resource, scope_metrics |-> scope_metrics]

MetricsData(resource_metrics) ==
    [msg |-> "MetricsData", resource_metrics |-> resource_metrics]

\* f"{n:02d}"
Pad2(n) == IF n < 10 THEN "0" \o ToString(n) ELSE ToString(n)

\* one iteration of the loop of generate_gauge building cpu_data_points
CpuDataPoint(self, i) ==
    LET u == uniform(self.rng, 20, 95)
    IN  [ret |-> NumberDataPointDouble(
                    << make_attribute("host", PyStr("web-" \o Pad2((i \div 8) + 1))),
                       make_attribute("cpu", PyInt(i % 8)) >>,
                    I64Add(self.base_time_ns, Seconds(i)),
                    u.v),
         rng |-> u.rng]

\* the iterations i = lo .. hi - 1 of that loop
RECURSIVE CpuDataPointsLoop(_, _, _)

CpuDataPointsRest(self, mid, hi, first) ==
    Extended(first, CpuDataPointsLoop([self EXCEPT !.rng = first.rng], mid, hi))

CpuDataPointsLoop(self, lo, hi) ==
    IF lo >= hi THEN [ret |-> <<>>, rng |-> self.rng]
    ELSE IF hi = lo + 1
    THEN Appended(CpuDataPoint(self, lo))
    ELSE CpuDataPointsRest(self, (lo + hi) \div 2, hi,
                           CpuDataPointsLoop(self, lo, (lo + hi) \div 2))

\* returns [ret |-> the MetricsData, rng |-> the stream afterwards]
generate_gauge(self) ==
    LET resource == Resource(<<
            make_attribute("service.name", PyStr("demo-service")),
            make_attribute("service.version", PyStr("1.0.0")),
            make_attribute("deployment.environment", PyStr("production")) >>)
        num_points == _scale_datapoints(self, 2)
        cpu == CpuDataPointsLoop(self, 0, num_points)
        cpu_gauge == Gauge(cpu.ret)
        memory_gauge == Gauge(<<
            NumberDataPointInt(<< make_attribute("host", PyStr("web-01")) >>,
                               self.base_time_ns, [q |-> 8, r |-> 589934592]) >>)
        metrics == <<
            MetricGauge("cpu.usage", "Current CPU usage percentage", "percent", cpu_gauge),
            MetricGauge("memory.available", "Available memory in bytes", "bytes",
                        memory_gauge) >>
        scope_metrics == ScopeMetrics(InstrumentationScope("demo-instrumentation", "1.0.0"),
                                      metrics)
        resource_metrics == ResourceMetrics(resource, <<scope_metrics>>)
    IN  [ret |-> MetricsData(<<resource_metrics>>), rng |-> cpu.rng]

generate_sum(self) ==
    LET resource == Resource(<<
            make_attribute("service.name", PyStr("api-gateway")),
            make_attribute("service.version", PyStr("2.1.0")) >>)
        http_sum == Sum(<<
          NumberDataPointInt(
            << make_attribute("http.method", PyStr("GET")),
               make_attribute("http.status_code", PyInt(200)),
               make_attribute("http.route", PyStr("/api/users")) >>,
            self.base_time_ns, I64(15234)),
          NumberDataPointInt(
            << make_attribute("http.method", PyStr("POST")),
               make_attribute("http.status_code", PyInt(201)),
               make_attribute("http.route", PyStr("/api/users")) >>,
            self.base_time_ns, I64(3421)),
          NumberDataPointInt(
            << make_attribute("http.method", PyStr("GET")),
               make_attribute("http.status_code", PyInt(404)),
               make_attribute("http.route", PyStr("/api/users")) >>,
            self.base_time_ns, I64(152)) >>)
        bytes_sum == Sum(<<
          NumberDataPointInt(
            << make_attribute("http.route", PyStr("/api/users")) >>,
            self.base_time_ns, I64(45892134)) >>)
        metrics == <<
            MetricSum("http.requests.total", "Total number of HTTP requests", "1", http_sum),
            MetricSum("http.request.bytes", "Total bytes received in requests", "bytes",
                      bytes_sum) >>
        scope_metrics == ScopeMetrics(InstrumentationScope("http-instrumentation", "1.2.0"), metrics)
        resource_metrics == ResourceMetrics(resource, <<scope_metrics>>)
    IN  [ret |-> MetricsData(<<resource_metrics>>), rng |-> self.rng]

generate_histogram(self) ==
    LET resource == Resource(<<
            make_attribute("service.name", PyStr("api-gateway")),
            make_attribute("deployment.environment", PyStr("production")) >>)
        http_histogram == Histogram(<<
          HistogramDataPoint(
            << make_attribute("http.method", PyStr("GET")),
               make_attribute("http.route", PyStr("/api/users")),
               make_attribute("http.status_code", PyInt(200)) >>,
            self.base_time_ns, 1543, Dbl(45120, 50),
            << I64(23), I64(342), I64(687), I64(398), I64(78), I64(15) >>,
            << Dbl(10, 0), Dbl(25, 0), Dbl(50, 0), Dbl(100, 0), Dbl(250, 0) >>,
            Dbl(2, 30), Dbl(421, 80)),
          HistogramDataPoint(
            << make_attribute("http.method", PyStr("POST")),
               make_attribute("http.route", PyStr("/api/users")),
               make_attribute("http.status_code", PyInt(201)) >>,
            self.base_time_ns, 892, Dbl(67854, 20),
            << I64(12), I64(156), I64(298), I64(321), I64(89), I64(16) >>,
            << Dbl(10, 0), Dbl(25, 0), Dbl(50, 0), Dbl(100, 0), Dbl(250, 0) >>,
            Dbl(5, 10), Dbl(512, 30)) >>)
        db_histogram == Histogram(<<
          HistogramDataPoint(
            << make_attribute("db.system", PyStr("postgresql")),
               make_attribute("db.operation", PyStr("SELECT")) >>,
            self.base_time_ns, 5234, Dbl(12456, 80),
            << I64(1234), I64(2891), I64(876), I64(198), I64(35) >>,
            << Dbl(1, 0), Dbl(5, 0), Dbl(10, 0), Dbl(50, 0) >>,
            Dbl(0, 20), Dbl(89, 50)) >>)
        metrics == <<
            MetricHistogram("http.server.duration",
                            "Duration of HTTP requests in milliseconds", "ms", http_histogram),
            MetricHistogram("db.query.duration", "Duration of database queries", "ms",
                            db_histogram) >>
        scope_metrics == ScopeMetrics(InstrumentationScope("http-instrumentation", "1.2.0"), metrics)
        resource_metrics == ResourceMetrics(resource, <<scope_metrics>>)
    IN  [ret |-> MetricsData(<<resource_metrics>>), rng |-> self.rng]

generate_exponential_histogram(self) ==
    LET resource == Resource(<<
            make_attribute("service.name", PyStr("payment-service")),
            make_attribute("service.version", PyStr("3.2.1")) >>)
        exp_histogram == ExponentialHistogram(<<
          ExponentialHistogramDataPoint(
            << make_attribute("payment.method", PyStr("credit_card")),
               make_attribute("payment.provider", PyStr("stripe")) >>,
            self.base_time_ns, 2543, Dbl(125634, 50), 3, 5,
            Buckets(2, << I64(234), I64(567), I64(892), I64(645), I64(178), I64(22) >>),
            Buckets(0, <<>>),
            Dbl(12, 30), Dbl(1234, 50)),
          ExponentialHistogramDataPoint(
            << make_attribute("payment.method", PyStr("paypal")),
               make_attribute("payment.provider", PyStr("paypal")) >>,
            self.base_time_ns, 1832, Dbl(98234, 20), 3, 3,
            Buckets(1, << I64(156), I64(432), I64(721), I64(412), I64(98), I64(12) >>),
            Buckets(0, <<>>),
            Dbl(8, 70), Dbl(892, 30)) >>)
        metrics == <<
            MetricExponentialHistogram("payment.processing.duration",
                "Duration of payment processing operations", "ms", exp_histogram) >>
        scope_metrics == ScopeMetrics(InstrumentationScope("payment-instrumentation", "1.0.0"), metrics)
        resource_metrics == ResourceMetrics(resource, <<scope_metrics>>)
    IN  [ret |-> MetricsData(<<resource_metrics>>), rng |-> self.rng]

generate_summary(self) ==
    LET resource == Resource(<<
            make_attribute("service.name", PyStr("analytics-service")),
            make_attribute("service.version", PyStr("1.5.2")) >>)
        summary == Summary(<<
          SummaryDataPoint(
            << make_attribute("endpoint", PyStr("/api/analytics")),
               make_attribute("method", PyStr("POST")) >>,
            self.base_time_ns, 8534, Dbl(45892134, 0),
            << ValueAtQuantile(Dbl(0, 0), Dbl(128, 0)),
               ValueAtQuantile(Dbl(0, 50), Dbl(4512, 0)),
               ValueAtQuantile(Dbl(0, 90), Dbl(12834, 0)),
               ValueAtQuantile(Dbl(0, 95), Dbl(18923, 0)),
               ValueAtQuantile(Dbl(0, 99), Dbl(45123, 0)),
               ValueAtQuantile(Dbl(1, 0), Dbl(98234, 0)) >>),
          SummaryDataPoint(
            << make_attribute("endpoint", PyStr("/api/data")),
               make_attribute("method", PyStr("GET")) >>,
            self.base_time_ns, 12934, Dbl(12345678, 0),
            << ValueAtQuantile(Dbl(0, 0), Dbl(64, 0)),
               ValueAtQuantile(Dbl(0, 50), Dbl(892, 0)),
               ValueAtQuantile(Dbl(0, 90), Dbl(2341, 0)),
               ValueAtQuantile(Dbl(0, 95), Dbl(3456, 0)),
               ValueAtQuantile(Dbl(0, 99), Dbl(8234, 0)),
               ValueAtQuantile(Dbl(1, 0), Dbl(15234, 0)) >>) >>)
        metrics == <<
            MetricSummary("request.size", "Summary of request sizes", "bytes", summary) >>
        scope_metrics == ScopeMetrics(InstrumentationScope("analytics-instrumentation", "2.0.0"), metrics)
        resource_metrics == ResourceMetrics(resource, <<scope_metrics>>)
    IN  [ret |-> MetricsData(<<resource_metrics>>), rng |-> self.rng]

generate_mixed(self) ==
    LET resource == Resource(<<
            make_attribute("service.name", PyStr("multi-service")),
            make_attribute("service.version", PyStr("1.0.0")),
            make_attribute("deployment.environment", PyStr("staging")) >>)
        cpu_gauge == Gauge(<<
            NumberDataPointDouble(<< make_attribute("cpu", PyInt(0)) >>,
                                  self.base_time_ns, Dbl(0, 42)) >>)
        network_sum == Sum(<<
          NumberDataPointInt(
            << make_attribute("direction", PyStr("transmit")) >>,
            self.base_time_ns, I64(123456789)) >>)
        http_histogram == Histogram(<<
          HistogramDataPoint(
            << make_attribute("http.method", PyStr("GET")) >>,
            self.base_time_ns, 100, Dbl(5000, 0),
            << I64(10), I64(30), I64(40), I64(15), I64(5) >>,
            << Dbl(10, 0), Dbl(50, 0), Dbl(100, 0), Dbl(500, 0) >>,
            Dbl(5, 0), Dbl(1000, 0)) >>)
        metrics == <<
            MetricGauge("system.cpu.utilization", "CPU utilization", "1", cpu_gauge),
            MetricSum("system.network.io", "Network bytes transferred", "bytes", network_sum),
            MetricHistogram("http.server.request.duration", "HTTP request duration", "ms",
                            http_histogram) >>
        scope_metrics == ScopeMetrics(InstrumentationScope("system-instrumentation", "1.0.0"), metrics)
        resource_metrics == ResourceMetrics(resource, <<scope_metrics>>)
    IN  [ret |-> MetricsData(<<resource_metrics>>), rng |-> self.rng]

(***************************************************************************)
(* The message types of opentelemetry.proto the program builds: for each   *)
(* type its fields in field number order, with the JSON name, the field    *)
(* number, the kind (a scalar kind, an enum or a message type), whether    *)
(* the field is repeated and whether it tracks presence (a message field,  *)
(* a member of a oneof, an optional field).                                *)
(***************************************************************************)
Field(name, json, num, kind, rep, pres) ==
    [name |-> name, json |-> json, num |-> num, kind |-> kind, rep |-> rep, pres |-> pres]

Fields(msg) ==
    CASE msg = "LogsData" ->
            << Field("resource_logs", "resourceLogs", 1, "ResourceLogs", TRUE, FALSE) >>
      [] msg = "ResourceLogs" ->
            << Field("resource", "resource", 1, "Resource", FALSE, TRUE),
               Field("scope_logs", "scopeLogs", 2, "ScopeLogs", TRUE, FALSE),
               Field("schema_url", "schemaUrl", 3, "string", FALSE, FALSE) >>
      [] msg = "ScopeLogs" ->
            << Field("scope", "scope", 1, "InstrumentationScope", FALSE, TRUE),
               Field("log_records", "logRecords", 2, "LogRecord", TRUE, FALSE) >>
      [] msg = "LogRecord" ->
            << Field("time_unix_nano", "timeUnixNano", 1, "fixed64", FALSE, FALSE),
               Field("severity_number", "severityNumber", 2, "SeverityNumber", FALSE, FALSE),
               Field("severity_text", "severityText", 3, "string", FALSE, FALSE),
               Field("body", "body", 5, "AnyValue", FALSE, TRUE),
               Field("attributes", "attributes", 6, "KeyValue", TRUE, FALSE),
               Field("flags", "flags", 8, "fixed32", FALSE, FALSE),
               Field("trace_id", "traceId", 9, "bytes", FALSE, FALSE),
               Field("span_id", "spanId", 10, "bytes", FALSE, FALSE) >>
      [] msg = "Resource" ->
            << Field("attributes", "attributes", 1, "KeyValue", TRUE, FALSE) >>
      [] msg = "InstrumentationScope" ->
            << Field("name", "name", 1, "string", FALSE, FALSE),
               Field("version", "version", 2, "string", FALSE, FALSE) >>
      [] msg = "KeyValue" ->
            << Field("key", "key", 1, "string", FALSE, FALSE),
               Field("value", "value", 2, "AnyValue", FALSE, TRUE) >>
      [] msg = "AnyValue" ->
            << Field("string_value", "stringValue", 1, "string", FALSE, TRUE),
               Field("bool_value", "boolValue", 2, "bool", FALSE, TRUE),
               Field("int_value", "intValue", 3, "int64", FALSE, TRUE) >>
      [] msg = "TracesData" ->
            << Field("resource_spans", "resourceSpans", 1, "ResourceSpans", TRUE, FALSE) >>
      [] msg = "ResourceSpans" ->
            << Field("resource", "resource", 1, "Resource", FALSE, TRUE),
               Field("scope_spans", "scopeSpans", 2, "ScopeSpans", TRUE, FALSE),
               Field("schema_url", "schemaUrl", 3, "string", FALSE, FALSE) >>
      [] msg = "ScopeSpans" ->
            << Field("scope", "scope", 1, "InstrumentationScope", FALSE, TRUE),
               Field("spans", "spans", 2, "Span", TRUE, FALSE) >>
      [] msg = "Span" ->
            << Field("trace_id", "traceId", 1, "bytes", FALSE, FALSE),
               Field("span_id", "spanId", 2, "bytes", FALSE, FALSE),
               Field("parent_span_id", "parentSpanId", 4, "bytes", FALSE, FALSE),
               Field("name", "name", 5, "string", FALSE, FALSE),
               Field("kind", "kind", 6, "SpanKind", FALSE, FALSE),
               Field("start_time_unix_nano", "startTimeUnixNano", 7, "fixed64", FALSE, FALSE),
               Field("end_time_unix_nano", "endTimeUnixNano", 8, "fixed64", FALSE, FALSE),
               Field("attributes", "attributes", 9, "KeyValue", TRUE, FALSE),
               Field("events", "events", 11, "Event", TRUE, FALSE),
               Field("status", "status", 15, "Status", FALSE, TRUE) >>
      [] msg = "Event" ->
            << Field("time_unix_nano", "timeUnixNano", 1, "fixed64", FALSE, FALSE),
               Field("name", "name", 2, "string", FALSE, FALSE) >>
      [] msg = "Status" ->
            <<>>
      [] msg = "MetricsData" ->
            << Field("resource_metrics", "resourceMetrics", 1, "ResourceMetrics", TRUE, FALSE) >>
      [] msg = "ResourceMetrics" ->
            << Field("resource", "resource", 1, "Resource", FALSE, TRUE),
               Field("scope_metrics", "scopeMetrics", 2, "ScopeMetrics", TRUE, FALSE) >>
      [] msg = "ScopeMetrics" ->
            << Field("scope", "scope", 1, "InstrumentationScope", FALSE, TRUE),
               Field("metrics", "metrics", 2, "Metric", TRUE, FALSE) >>
      [] msg = "Metric" ->
            << Field("name", "name", 1, "string", FALSE, FALSE),
               Field("description", "description", 2, "string", FALSE, FALSE),
               Field("unit", "unit", 3, "string", FALSE, FALSE),
               Field("gauge", "gauge", 5, "Gauge", FALSE, TRUE),
               Field("sum", "sum", 7, "Sum", FALSE, TRUE),
               Field("histogram", "histogram", 9, "Histogram", FALSE, TRUE),
               Field("exponential_histogram", "exponentialHistogram", 10, "ExponentialHistogram", FALSE, TRUE),
               Field("summary", "summary", 11, "Summary", FALSE, TRUE) >>
      [] msg = "Gauge" ->
            << Field("data_points", "dataPoints", 1, "NumberDataPoint", TRUE, FALSE) >>
      [] msg = "Sum" ->
            << Field("data_points", "dataPoints", 1, "NumberDataPoint", TRUE, FALSE),
               Field("aggregation_temporality", "aggregationTemporality", 2, "AggregationTemporality", FALSE, FALSE),
               Field("is_monotonic", "isMonotonic", 3, "bool", FALSE, FALSE) >>
      [] msg = "Histogram" ->
            << Field("data_points", "dataPoints", 1, "HistogramDataPoint", TRUE, FALSE),
               Field("aggregation_temporality", "aggregationTemporality", 2, "AggregationTemporality", FALSE, FALSE) >>
      [] msg = "ExponentialHistogram" ->
            << Field("data_points", "dataPoints", 1, "ExponentialHistogramDataPoint", TRUE, FALSE),
               Field("aggregation_temporality", "aggregationTemporality", 2, "AggregationTemporality", FALSE, FALSE) >>
      [] msg = "Summary" ->
            << Field("data_points", "dataPoints", 1, "SummaryDataPoint", TRUE, FALSE) >>
      [] msg = "NumberDataPoint" ->
            << Field("time_unix_nano", "timeUnixNano", 3, "fixed64", FALSE, FALSE),
               Field("as_double", "asDouble", 4, "double", FALSE, TRUE),
               Field("as_int", "asInt", 6, "int64", FALSE, TRUE),
               Field("attributes", "attributes", 7, "KeyValue", TRUE, FALSE) >>
      [] msg = "HistogramDataPoint" ->
            << Field("time_unix_nano", "timeUnixNano", 3, "fixed64", FALSE, FALSE),
               Field("count", "count", 4, "fixed64", FALSE, FALSE),
               Field("sum", "sum", 5, "double", FALSE, TRUE),
               Field("bucket_counts", "bucketCounts", 6, "fixed64", TRUE, FALSE),
               Field("explicit_bounds", "explicitBounds", 7, "double", TRUE, FALSE),
               Field("attributes", "attributes", 9, "KeyValue", TRUE, FALSE),
               Field("min", "min", 11, "double", FALSE, TRUE),
               Field("max", "max", 12, "double", FALSE, TRUE) >>
      [] msg = "ExponentialHistogramDataPoint" ->
            << Field("attributes", "attributes", 1, "KeyValue", TRUE, FALSE),
               Field("time_unix_nano", "timeUnixNano", 3, "fixed64", FALSE, FALSE),
               Field("count", "count", 4, "fixed64", FALSE, FALSE),
               Field("sum", "sum", 5, "double", FALSE, TRUE),
               Field("scale", "scale", 6, "int32", FALSE, FALSE),
               Field("zero_count", "zeroCount", 7, "fixed64", FALSE, FALSE),
               Field("positive", "positive", 8, "Buckets", FALSE, TRUE),
               Field("negative", "negative", 9, "Buckets", FALSE, TRUE),
               Field("min", "min", 12, "double", FALSE, TRUE),
               Field("max", "max", 13, "double", FALSE, TRUE) >>
      [] msg = "Buckets" ->
            << Field("offset", "offset", 1, "int32", FALSE, FALSE),
               Field("bucket_counts", "bucketCounts", 2, "int64", TRUE, FALSE) >>
      [] msg = "SummaryDataPoint" ->
            << Field("time_unix_nano", "timeUnixNano", 3, "fixed64", FALSE, FALSE),
               Field("count", "count", 4, "fixed64", FALSE, FALSE),
               Field("sum", "sum", 5, "double", FALSE, FALSE),
               Field("quantile_values", "quantileValues", 6, "ValueAtQuantile", TRUE, FALSE),
               Field("attributes", "attributes", 7, "KeyValue", TRUE, FALSE) >>
      [] msg = "ValueAtQuantile" ->
            << Field("quantile", "quantile", 1, "double", FALSE, FALSE),
               Field("value", "value", 2, "double", FALSE, FALSE) >>
      [] OTHER -> <<>>

MessageTypes ==
    { "LogsData",
      "ResourceLogs",
      "ScopeLogs",
      "LogRecord",
      "Resource",
      "InstrumentationScope",
      "KeyValue",
      "AnyValue",
      "TracesData",
      "ResourceSpans",
      "ScopeSpans",
      "Span",
      "Event",
      "Status",
      "MetricsData",
      "ResourceMetrics",
      "ScopeMetrics",
      "Metric",
      "Gauge",
      "Sum",
      "Histogram",
      "ExponentialHistogram",
      "Summary",
      "NumberDataPoint",
      "HistogramDataPoint",
      "ExponentialHistogramDataPoint",
      "Buckets",
      "SummaryDataPoint",
      "ValueAtQuantile" }

EnumKinds == { "SeverityNumber", "SpanKind", "AggregationTemporality" }

EnumName(kind, v) ==
    CASE kind = "SeverityNumber" ->
            (CASE v = 5 -> "SEVERITY_NUMBER_DEBUG"
               [] v = 9 -> "SEVERITY_NUMBER_INFO"
               [] v = 13 -> "SEVERITY_NUMBER_WARN"
               [] v = 17 -> "SEVERITY_NUMBER_ERROR"
               [] OTHER -> ToString(v))
      [] kind = "SpanKind" ->
            (CASE v = 1 -> "SPAN_KIND_INTERNAL"
               [] v = 2 -> "SPAN_KIND_SERVER"
               [] v = 3 -> "SPAN_KIND_CLIENT"
               [] OTHER -> ToString(v))
      [] kind = "AggregationTemporality" ->
            (CASE v = 1 -> "AGGREGATION_TEMPORALITY_DELTA"
               [] v = 2 -> "AGGREGATION_TEMPORALITY_CUMULATIVE"
               [] OTHER -> ToString(v))

\* the default value test of a field without presence
IsDefault(kind, v) ==
    CASE kind = "string" -> v = <<>>
      [] kind = "bytes" -> v.n = 0
      [] kind \in {"int64", "fixed64"} -> v.q = 0 /\ v.r = 0
      [] kind \in {"int32", "fixed32"} -> v = 0
      [] kind = "double" -> v.w = 0 /\ v.c = 0
      [] kind = "bool" -> v = FALSE
      [] kind \in EnumKinds -> v = 0
      [] OTHER -> FALSE

\* message.ListFields(): the fields an encoder emits
Listed(f, m) ==
    /\ f.name \in DOMAIN m
    /\ \/ f.pres
       \/ f.rep /\ m[f.name] # <<>>
       \/ ~f.rep /\ ~f.pres /\ ~IsDefault(f.kind, m[f.name])

ListFields(m) == SelectSeq(Fields(m.msg), LAMBDA f : Listed(f, m))

\* a protobuf message (None, or any other object, is not)
IsMessage(data) == data.msg \in MessageTypes

None == [msg |-> "NoneType"]

(***************************************************************************)
(* google.protobuf.json_format.MessageToJson(message, indent) followed by  *)
(* json.dumps: the text as a sequence of chunks.  A word of a string is    *)
(* its own JSON form (escaping inside a word adds no white space); a       *)
(* newline of a string is escaped to the word \n.                          *)
(***************************************************************************)
NumDigits(n) ==
    IF n < 10 THEN 1 ELSE IF n < 100 THEN 2 ELSE IF n < 1000 THEN 3
    ELSE IF n < 10000 THEN 4 ELSE IF n < 100000 THEN 5 ELSE IF n < 1000000 THEN 6
    ELSE IF n < 10000000 THEN 7 ELSE IF n < 100000000 THEN 8 ELSE 9

RECURSIVE Zeros(_)
Zeros(k) == IF k <= 0 THEN "" ELSE "0" \o Zeros(k - 1)

\* f"{r:09d}"
Pad9(r) == Zeros(9 - NumDigits(r)) \o ToString(r)

\* str(v) of a 64 bit integer
I64Str(v) == IF v.q = 0 THEN ToString(v.r) ELSE ToString(v.q) \o Pad9(v.r)

\* repr(d) of a double
DblStr(d) ==
    ToString(d.w) \o "." \o (IF d.c % 10 = 0 THEN ToString(d.c \div 10) ELSE Pad2(d.c))

Base64(b) == "b64(" \o ToString(b.n) \o ":" \o ToString(b.v) \o ")"

Quote == "\""

Escape(text) == [i \in 1..Len(text) |-> IF text[i] = "\n" THEN "\\n" ELSE text[i]]

JsonScalar(kind, v) ==
    CASE kind = "string" -> <<Quote>> \o Escape(v) \o <<Quote>>
      [] kind = "bytes" -> <<Quote, Base64(v), Quote>>
      [] kind \in {"int64", "fixed64"} -> <<Quote, I64Str(v), Quote>>
      [] kind \in {"int32", "fixed32"} -> <<ToString(v)>>
      [] kind = "double" -> <<DblStr(v)>>
      [] kind = "bool" -> <<IF v THEN "true" ELSE "false">>
      [] kind \in EnumKinds -> <<Quote, EnumName(kind, v), Quote>>

\* the newline and the indentation json.dumps puts before an item
NewlineIndent(indent, level) == <<"\n">> \o [i \in 1..(indent * level) |-> " "]

RECURSIVE JsonMessage(_, _, _)
RECURSIVE JsonMembers(_, _, _, _, _)
RECURSIVE JsonItems(_, _, _, _, _)

JsonValue(kind, v, indent, level) ==
    IF kind \in MessageTypes THEN JsonMessage(v, indent, level) ELSE JsonScalar(kind, v)

JsonArray(kind, xs, indent, level) ==
    <<"[">> \o NewlineIndent(indent, level + 1)
            \o JsonItems(kind, xs, 1, indent, level + 1)
            \o NewlineIndent(indent, level) \o <<"]">>

JsonItems(kind, xs, k, indent, level) ==
    JsonValue(kind, xs[k], indent, level)
    \o (IF k < Len(xs)
        THEN <<",">> \o NewlineIndent(indent, level) \o JsonItems(kind, xs, k + 1, indent, level)
        ELSE <<>>)

JsonMembers(m, fs, k, indent, level) ==
    LET f == fs[k]
    IN  <<Quote, f.json, Quote, ":", " ">>
        \o (IF f.rep THEN JsonArray(f.kind, m[f.name], indent, level)
            ELSE JsonValue(f.kind, m[f.name], indent, level))
        \o (IF k < Len(fs)
            THEN <<",">> \o NewlineIndent(indent, level) \o JsonMembers(m, fs, k + 1, indent, level)
            ELSE <<>>)

JsonMessage(m, indent, level) ==
    LET fs == ListFields(m)
    IN  IF fs = <<>> THEN <<"{", "}">>
        ELSE <<"{">> \o NewlineIndent(indent, level + 1)
                     \o JsonMembers(m, fs, 1, indent, level + 1)
                     \o NewlineIndent(indent, level) \o <<"}">>

\* json_format.MessageToJson(data, indent=indent): the text, or the error
\* raised when data is no message
MessageToJson(data, indent) ==
    IF IsMessage(data) THEN [ok |-> TRUE, text |-> JsonMessage(data, indent, 0)]
    ELSE [ok |-> FALSE, text |-> <<>>]

(***************************************************************************)
(* message.SerializeToString(): the fields of the message in field number  *)
(* order, each an entry [num, payload]; a nested message is the payload of *)
(* its entry, its own entries in brackets.                                 *)
(***************************************************************************)
BytesToken(b) == "bytes(" \o ToString(b.n) \o ":" \o ToString(b.v) \o ")"

PbScalar(kind, v) ==
    CASE kind = "string" -> <<"str", ToString(Len(v))>> \o v
      [] kind = "bytes" -> <<BytesToken(v)>>
      [] kind \in {"int64", "fixed64"} -> <<I64Str(v)>>
      [] kind \in {"int32", "fixed32"} -> <<ToString(v)>>
      [] kind = "double" -> <<DblStr(v)>>
      [] kind = "bool" -> <<IF v THEN "1" ELSE "0">>
      [] kind \in EnumKinds -> <<ToString(v)>>

Packed(kind) == kind \in {"int64", "fixed64", "int32", "fixed32", "double", "bool"} \cup EnumKinds

RECURSIVE PbEntries(_)
RECURSIVE PbFieldEntries(_, _, _)
RECURSIVE PbElementEntries(_, _, _)
RECURSIVE PbPackedPayload(_, _, _)
RECURSIVE PbFlatten(_, _)

PbPayload(kind, v) ==
    IF kind \in MessageTypes THEN PbFlatten(PbEntries(v), 1) ELSE PbScalar(kind, v)

PbFlatten(entries, k) ==
    IF k > Len(entries) THEN <<>>
    ELSE <<"#" \o ToString(entries[k].num), "(">> \o entries[k].payload \o <<")">>
         \o PbFlatten(entries, k + 1)

PbElementEntries(f, xs, k) ==
    [j \in 1..Len(xs) |-> [num |-> f.num, payload |-> PbPayload(f.kind, xs[j])]]

PbPackedPayload(kind, xs, k) ==
    IF k > Len(xs) THEN <<>> ELSE PbScalar(kind, xs[k]) \o PbPackedPayload(kind, xs, k + 1)

PbFieldEntries(m, fs, k) ==
    IF k > Len(fs) THEN <<>>
    ELSE LET f == fs[k]
         IN  (IF f.rep /\ Packed(f.kind)
              THEN <<[num |-> f.num, payload |-> PbPackedPayload(f.kind, m[f.name], 1)]>>
              ELSE IF f.rep THEN PbElementEntries(f, m[f.name], 1)
              ELSE <<[num |-> f.num, payload |-> PbPayload(f.kind, m[f.name])]>>)
             \o PbFieldEntries(m, fs, k + 1)

PbEntries(m) == PbFieldEntries(m, ListFields(m), 1)

\* data.SerializeToString(): the entries, or the error raised when data is
\* no message
SerializeToString(data) ==
    IF IsMessage(data) THEN [ok |-> TRUE, entries |-> PbEntries(data)]
    ELSE [ok |-> FALSE, entries |-> <<>>]

(***************************************************************************)
(* Files.  A path under TESTDATA_DIR is its name; a base name is held as   *)
(* [stem, ext], ext = "" when the name has no dot.                         *)
(***************************************************************************)
BaseName(stem, ext) == [stem |-> stem, ext |-> ext]

\* TESTDATA_DIR / name
PathOf(name) == IF name.ext = "" THEN name.stem ELSE name.stem \o "." \o name.ext

\* get_output_path without the size branch
get_output_path_unsuffixed(base_name, config) == PathOf(base_name)

get_output_path(base_name, config) ==
    IF config.size_mb # 0
    THEN PathOf(BaseName(base_name.stem \o "_large", base_name.ext))
    ELSE PathOf(base_name)

Absent == [exists |-> FALSE, binary |-> FALSE, text |-> <<>>, entries |-> <<>>]

TextFile(text) == [exists |-> TRUE, binary |-> FALSE, text |-> text, entries |-> <<>>]

BinaryFile(entries) == [exists |-> TRUE, binary |-> TRUE, text |-> <<>>, entries |-> entries]

\* the result of an exporter: the files afterwards, whether it raised, and
\* the paths it opened for writing, in order
Outcome(files, raised, opened) == [fs |-> files, raised |-> raised, opened |-> opened]

\* Path.write_text(text), Path.write_bytes(data)
write_text(files, output_path, text) == [files EXCEPT ![output_path] = TextFile(text)]

write_bytes(files, output_path, entries) ==
    [files EXCEPT ![output_path] = BinaryFile(entries)]

export_to_json(files, data, output_path, indent) ==
    LET json_str == MessageToJson(data, indent)
    IN  IF ~json_str.ok THEN Outcome(files, TRUE, <<>>)
        ELSE Outcome(write_text(files, output_path, json_str.text), FALSE, <<output_path>>)

\* str.replace("\n", "")
RemoveNewlines(text) == SelectSeq(text, LAMBDA c : c # "\n")

\* str.replace("  ", ""): scanning from the left, every two adjacent spaces
\* go; of a run of spaces the last one stays when the run is odd
RemoveDoubleSpaces(text) ==
    LET n == Len(text)
        IsSpace(i) == i >= 1 /\ i <= n /\ text[i] = " "
        \* the length of the run of spaces that ends at i
        RunEndingAt(i) ==
            i - (CHOOSE j \in 0..(i - 1) :
                    ~IsSpace(j) /\ \A k \in (j + 1)..i : IsSpace(k))
        Kept(i) ==
            \/ ~IsSpace(i)
            \/ /\ ~IsSpace(i + 1)
               /\ (~IsSpace(i - 1) \/ RunEndingAt(i) % 2 = 1)
        indexed == [i \in 1..n |-> [i |-> i, c |-> text[i]]]
        kept == SelectSeq(indexed, LAMBDA e : Kept(e.i))
    IN  [j \in 1..Len(kept) |-> kept[j].c]

\* one iteration of the loop of export_to_jsonl: the text written, or
\* ok = FALSE when MessageToJson raises
JsonlLine(record) ==
    LET json_str == MessageToJson(record, 0)
    IN  IF ~json_str.ok THEN [ok |-> FALSE, text |-> <<>>]
        ELSE [ok |-> TRUE,
              text |-> RemoveDoubleSpaces(RemoveNewlines(json_str.text)) \o <<"\n">>]

\* the iterations over records[lo .. hi] of that loop, stopping at the
\* first that raises: the text written to f
RECURSIVE JsonlLoop(_, _, _)
JsonlLoop(records, lo, hi) ==
    IF lo > hi THEN [ok |-> TRUE, text |-> <<>>]
    ELSE IF lo = hi THEN JsonlLine(records[lo])
    ELSE LET mid == (lo + hi) \div 2
             first == JsonlLoop(records, lo, mid)
         IN  IF ~first.ok THEN first
             ELSE LET rest == JsonlLoop(records, mid + 1, hi)
                  IN  [ok |-> rest.ok, text |-> first.text \o rest.text]

\* records: a list [msg |-> "list", items |-> ...].  output_path.open("w")
\* creates or truncates the file before the first record is encoded.
export_to_jsonl(files, records, output_path) ==
    LET f == JsonlLoop(records.items, 1, Len(records.items))
    IN  Outcome(write_text(files, output_path, f.text), ~f.ok, <<output_path>>)

PyList(items) == [msg |-> "list", items |-> items]

IsInstance(data, type) == data.msg = type

\* combined.<field>.extend(d.<field>) for d in data[k..]; an element without
\* the field raises AttributeError
RECURSIVE ExtendRange(_, _, _, _, _)
ExtendRange(data, lo, hi, type, field) ==
    IF lo > hi THEN [ok |-> TRUE, groups |-> <<>>]
    ELSE IF lo = hi
    THEN IF IsInstance(data[lo], type) THEN [ok |-> TRUE, groups |-> data[lo][field]]
         ELSE [ok |-> FALSE, groups |-> <<>>]
    ELSE LET mid == (lo + hi) \div 2
             first == ExtendRange(data, lo, mid, type, field)
         IN  IF ~first.ok THEN first
             ELSE LET rest == ExtendRange(data, mid + 1, hi, type, field)
                  IN  [ok |-> rest.ok, groups |-> first.groups \o rest.groups]

\* the loop that takes the groups of the first document only
ExtendLoopFirstOnly(data, type, field, combined) ==
    [ok |-> IsInstance(data[1], type),
     combined |-> [combined EXCEPT ![field] = @ \o data[1][field]]]

ExtendLoop(data, type, field, combined) ==
    LET r == ExtendRange(data, 1, Len(data), type, field)
    IN  [ok |-> r.ok, combined |-> [combined EXCEPT ![field] = @ \o r.groups]]

\* write_bytes(x.SerializeToString()) of x, raising when x is no message
SerializeAndWrite(files, x, output_path) ==
    LET b == SerializeToString(x)
    IN  IF ~b.ok THEN Outcome(files, TRUE, <<>>)
        ELSE Outcome(write_bytes(files, output_path, b.entries), FALSE, <<output_path>>)

\* export_to_protobuf without the test of the list's length: every list is
\* merged into a logs container
export_to_protobuf_no_length_test(files, data, output_path) ==
    IF IsInstance(data, "list")
    THEN SerializeAndWrite(
             files,
             ExtendLoop(data.items, "LogsData", "resource_logs", LogsData(<<>>)).combined,
             output_path)
    ELSE SerializeAndWrite(files, data, output_path)

export_to_protobuf(files, data, output_path) ==
    IF IsInstance(data, "list")
    THEN IF Len(data.items) > 0
         THEN IF IsInstance(data.items[1], "LogsData")
              THEN LET c == ExtendLoop(data.items, "LogsData", "resource_logs",
                                       LogsData(<<>>))
                   IN  IF ~c.ok THEN Outcome(files, TRUE, <<>>)
                       ELSE SerializeAndWrite(files, c.combined, output_path)
              ELSE IF IsInstance(data.items[1], "TracesData")
              THEN LET c == ExtendLoop(data.items, "TracesData", "resource_spans",
                                       TracesData(<<>>))
                   IN  IF ~c.ok THEN Outcome(files, TRUE, <<>>)
                       ELSE SerializeAndWrite(files, c.combined, output_path)
              ELSE SerializeAndWrite(files, data.items[1], output_path)
         ELSE Outcome(files, FALSE, <<>>)
    ELSE SerializeAndWrite(files, data, output_path)

(***************************************************************************)
(* The orchestrator.  The result of a generate_all_* call: the files       *)
(* afterwards, whether it raised, the paths opened for writing and the     *)
(* generator operations invoked, in order.                                 *)
(***************************************************************************)
Result(files, raised, opened_, calls_) ==
    [fs |-> files, raised |-> raised, opened |-> opened_, calls |-> calls_]

\* the outcome of the exporter call e made after the outcome o
After(o, e) == Outcome(e.fs, e.raised, o.opened \o e.opened)

\* an exporter call made after the outcome o, skipped when o raised
ThenJson(o, data, output_path, indent) ==
    IF o.raised THEN o ELSE After(o, export_to_json(o.fs, data, output_path, indent))

ThenJsonl(o, records, output_path) ==
    IF o.raised THEN o ELSE After(o, export_to_jsonl(o.fs, records, output_path))

ThenProtobuf(o, data, output_path) ==
    IF o.raised THEN o ELSE After(o, export_to_protobuf(o.fs, data, output_path))

Started(files) == Outcome(files, FALSE, <<>>)

WithCalls(o, calls_) == Result(o.fs, o.raised, o.opened, calls_)

\* the size branch of generate_all_logs, batch_logs being the batch generated
LargeLogs(files, cfg, batch_logs) ==
    WithCalls(
        ThenProtobuf(
            ThenJsonl(Started(files), PyList(batch_logs.ret),
                      get_output_path(BaseName("logs", "jsonl"), cfg)),
            PyList(batch_logs.ret),
            get_output_path(BaseName("logs", "pb"), cfg)),
        <<"generate_batch_logs">>)

\* the standard branch of generate_all_logs after log.json is exported with
\* outcome e1; an exception there leaves the batch ungenerated
StandardLogsBatch(e1, batch_logs) ==
    WithCalls(
        ThenProtobuf(ThenJsonl(e1, PyList(batch_logs.ret), "logs.jsonl"),
                     PyList(batch_logs.ret), "logs.pb"),
        IF e1.raised THEN <<"generate_single_log">>
        ELSE <<"generate_single_log", "generate_batch_logs">>)

StandardLogs(files, generator, single_log) ==
    StandardLogsBatch(
        export_to_json(files, single_log.ret, "log.json", 2),
        generate_batch_logs([generator EXCEPT !.rng = single_log.rng], DefaultLogCount))

generate_all_logs(files, cfg) ==
    IF cfg.size_mb # 0
    THEN LargeLogs(files, cfg, generate_batch_logs(LogsGenerator(cfg), DefaultLogCount))
    ELSE StandardLogs(files, LogsGenerator(cfg),
                      generate_single_log(LogsGenerator(cfg), Str("frontend-proxy")))

LargeTraces(files, cfg, batch_traces) ==
    WithCalls(
        ThenProtobuf(
            ThenJsonl(Started(files), PyList(batch_traces.ret),
                      get_output_path(BaseName("traces", "jsonl"), cfg)),
            PyList(batch_traces.ret),
            get_output_path(BaseName("traces", "pb"), cfg)),
        <<"generate_batch_traces">>)

\* the standard branch of generate_all_traces after trace.json and trace.pb
\* are exported with outcome e2
StandardTracesBatch(e2, batch_traces) ==
    WithCalls(
        ThenProtobuf(ThenJsonl(e2, PyList(batch_traces.ret), "traces.jsonl"),
                     PyList(batch_traces.ret), "traces.pb"),
        IF e2.raised THEN <<"generate_single_trace">>
        ELSE <<"generate_single_trace", "generate_batch_traces">>)

StandardTraces(files, generator, single_trace) ==
    StandardTracesBatch(
        ThenProtobuf(export_to_json(files, single_trace.ret, "trace.json", 2),
                     single_trace.ret, "trace.pb"),
        generate_batch_traces([generator EXCEPT !.rng = single_trace.rng],
                              DefaultTraceCount))

generate_all_traces(files, cfg) ==
    IF cfg.size_mb # 0
    THEN LargeTraces(files, cfg,
                     generate_batch_traces(TracesGenerator(cfg), DefaultTraceCount))
    ELSE StandardTraces(files, TracesGenerator(cfg),
                        generate_single_trace(TracesGenerator(cfg)))

\* getattr(generator, name)(): the method's result, or found = FALSE when
\* the generator has no attribute of that name
CallMethod(generator, name) ==
    CASE name = "generate_gauge" -> [found |-> TRUE, r |-> generate_gauge(generator)]
      [] name = "generate_sum" -> [found |-> TRUE, r |-> generate_sum(generator)]
      [] name = "generate_histogram" -> [found |-> TRUE, r |-> generate_histogram(generator)]
      [] name = "generate_exponential_histogram" ->
            [found |-> TRUE, r |-> generate_exponential_histogram(generator)]
      [] name = "generate_summary" -> [found |-> TRUE, r |-> generate_summary(generator)]
      [] name = "generate_mixed" -> [found |-> TRUE, r |-> generate_mixed(generator)]
      [] OTHER -> [found |-> FALSE, r |-> [ret |-> None, rng |-> generator.rng]]

\* the three exports of one metrics document under base_name
ExportMetric(o, data, base_name) ==
    ThenProtobuf(
        ThenJsonl(ThenJson(o, data, base_name \o ".json", 2),
                  PyList(<<data>>), base_name \o ".jsonl"),
        data, base_name \o ".pb")

metric_types == << "gauge", "sum", "histogram", "exponential_histogram", "summary" >>

\* the document data generated for type_name is exported after the result
\* r; the result carries the generator's stream onwards
WithStream(o, calls_, rng) ==
    [fs |-> o.fs, raised |-> o.raised, opened |-> o.opened, calls |-> calls_, rng |-> rng]

MetricExported(r, type_name, data) ==
    WithStream(ExportMetric(r, data.ret, "metrics_" \o type_name),
               Append(r.calls, "generate_" \o type_name), data.rng)

\* one iteration of the loop of generate_all_metrics, skipped when an
\* earlier one raised
MetricIteration(cfg, r, type_name) ==
    IF r.raised THEN r
    ELSE MetricExported(r, type_name,
            CallMethod([MetricsGenerator(cfg) EXCEPT !.rng = r.rng],
                       "generate_" \o type_name).r)

\* the iterations over metric_types[k..]
RECURSIVE AllMetricsLoop(_, _, _)
AllMetricsLoop(cfg, k, r) ==
    IF k > Len(metric_types) THEN r
    ELSE AllMetricsLoop(cfg, k + 1, MetricIteration(cfg, r, metric_types[k]))

\* the loop, then the mixed document
generate_all_metrics(files, cfg) ==
    MetricIteration(cfg,
        AllMetricsLoop(cfg, 1,
            [fs |-> files, raised |-> FALSE, opened |-> <<>>, calls |-> <<>>,
             rng |-> MetricsGenerator(cfg).rng]),
        "mixed")

(***************************************************************************)
(* main().  A selector is held as its parts: None is <<>>, "logs" is       *)
(* <<"logs">>, "metrics-gauge" is <<"metrics-", "gauge">>; so that         *)
(* startswith("metrics-") and replace("metrics-", "") are computed.        *)
(***************************************************************************)
\* a parser that takes any value for the selector
ChoicesUnchecked ==
    { <<"logs">>, <<"traces">>, <<"metrics">>,
      <<"metrics-", "gauge">>, <<"metrics-", "sum">>, <<"metrics-", "histogram">>,
      <<"metrics-", "exponential-histogram">>, <<"metrics-", "summary">>,
      <<"metrics-", "mixed">>, <<"bogus">>, <<"metrics-", "bogus">> }

Choices ==
    { <<"logs">>, <<"traces">>, <<"metrics">>,
      <<"metrics-", "gauge">>, <<"metrics-", "sum">>, <<"metrics-", "histogram">>,
      <<"metrics-", "exponential-histogram">>, <<"metrics-", "summary">>,
      <<"metrics-", "mixed">> }

StartsWithMetrics(only) == only # <<>> /\ Head(only) = "metrics-"

\* only.replace("metrics-", "")
ReplaceMetrics(only) == Join(SelectSeq(only, LAMBDA part : part # "metrics-"))

\* the branch of main for a metrics-<type> selector, gen_func being what
\* getattr found
MetricTypeExport(files, metric_type, gen_func) ==
    IF ~gen_func.found THEN Result(files, TRUE, <<>>, <<>>)
    ELSE WithCalls(ExportMetric(Started(files), gen_func.r.ret, "metrics_" \o metric_type),
                   <<"generate_" \o metric_type>>)

generate_metric_type(files, cfg) ==
    MetricTypeExport(files, ReplaceMetrics(cfg.only),
                     CallMethod(MetricsGenerator(cfg),
                                "generate_" \o ReplaceMetrics(cfg.only)))

\* the calls main makes inside its try block, in order
Plan(only) ==
    IF only = <<>> THEN << "logs", "metrics", "traces" >>
    ELSE IF only = <<"logs">> THEN << "logs" >>
    ELSE IF only = <<"traces">> THEN << "traces" >>
    ELSE IF only = <<"metrics">> THEN << "metrics" >>
    ELSE IF StartsWithMetrics(only) THEN << "metric_type" >>
    ELSE <<>>

BaselineNames ==
    { "log.json", "logs.jsonl", "logs.pb",
      "trace.json", "trace.pb", "traces.jsonl", "traces.pb" }
    \cup { "metrics_" \o t \o "." \o e :
             t \in { "gauge", "sum", "histogram", "exponential_histogram", "summary", "mixed" },
             e \in { "json", "jsonl", "pb" } }

LargeNames ==
    { "logs_large.jsonl", "logs_large.pb", "traces_large.jsonl", "traces_large.pb" }

\* the path the exporter harness writes to
HarnessPath == "out"

FileNames == BaselineNames \cup LargeNames \cup { HarnessPath }

\* the checked-in content of a baseline fixture
CheckedIn(name) == TextFile(<<"checked-in " \o name>>)

(***************************************************************************)
(* State.                                                                  *)
(***************************************************************************)
VARIABLES
    args,        \* the command line: [only, verbose, size_mb]
    config,      \* the GenerationConfig of the run
    pc,          \* where the run is
    todo,        \* the calls main has still to make inside its try block
    fs,          \* the files under TESTDATA_DIR: name -> content
    opened,      \* the paths opened for writing so far, in order
    calls,       \* the generator operations invoked so far, in order
    status,      \* the exit status, -1 while running
    start_time,  \* main's start_time
    gens,        \* the generator harness: the generators built
    hist,        \* the generator harness: each generator's calls and results
    call         \* the exporter harness: the exporter call made

vars == << args, config, pc, todo, fs, opened, calls, status, now, start_time,
           gens, hist, call >>

\* the largest target size of a run, in units of 1/1024 MB
MaxSize == 4

Sizes == 0..MaxSize

DefaultConfig == GenerationConfig(SEED, FALSE, <<>>, 0)

InitialFiles == [n \in FileNames |-> IF n \in BaselineNames THEN CheckedIn(n) ELSE Absent]

NoCall == [fn |-> "none"]

HarnessIdle ==
    /\ gens = <<>>
    /\ hist = <<>>
    /\ call = NoCall

MainIdle ==
    /\ args = [only |-> <<>>, verbose |-> FALSE, size_mb |-> 0]
    /\ todo = <<>>
    /\ status = -1
    /\ start_time = 0

(***************************************************************************)
(* Spec: one run of main().                                                *)
(***************************************************************************)
Init ==
    /\ args \in [only : Choices \cup { <<>>, <<"bogus">>, <<"metrics-", "bogus">> },
                 verbose : BOOLEAN,
                 size_mb : Sizes]
    /\ config = DefaultConfig
    /\ pc = "start"
    /\ todo = <<>>
    /\ fs = InitialFiles
    /\ opened = <<>>
    /\ calls = <<>>
    /\ status = -1
    /\ now = 0
    /\ start_time = 0
    /\ HarnessIdle

\* parser.parse_args() rejects a selector outside choices: exit status 2
UsageError ==
    /\ pc = "start"
    /\ args.only \notin Choices \cup { <<>> }
    /\ pc' = "exit"
    /\ status' = 2
    /\ now' = now + 1
    /\ UNCHANGED << args, config, todo, fs, opened, calls, start_time, gens, hist, call >>

\* parse_args, the GenerationConfig, the banner and start_time = time.time()
ParseArgs ==
    /\ pc = "start"
    /\ args.only \in Choices \cup { <<>> }
    /\ config' = GenerationConfig(SEED, args.verbose, args.only, args.size_mb)
    /\ start_time' = now
    /\ todo' = Plan(args.only)
    /\ pc' = "try"
    /\ now' = now + 1
    /\ UNCHANGED << args, fs, opened, calls, status, gens, hist, call >>

\* one call of the try block with result r: an exception ends main with 1
Finish(r) ==
    /\ fs' = r.fs
    /\ opened' = opened \o r.opened
    /\ calls' = calls \o r.calls
    /\ IF r.raised
       THEN pc' = "exit" /\ status' = 1 /\ todo' = todo
       ELSE pc' = "try" /\ status' = status /\ todo' = Tail(todo)
    /\ now' = now + 1
    /\ UNCHANGED << args, config, start_time, gens, hist, call >>

GenerateAllLogs ==
    /\ pc = "try" /\ todo # <<>> /\ Head(todo) = "logs"
    /\ Finish(generate_all_logs(fs, config))

GenerateAllMetrics ==
    /\ pc = "try" /\ todo # <<>> /\ Head(todo) = "metrics"
    /\ Finish(generate_all_metrics(fs, config))

GenerateAllTraces ==
    /\ pc = "try" /\ todo # <<>> /\ Head(todo) = "traces"
    /\ Finish(generate_all_traces(fs, config))

GenerateMetricType ==
    /\ pc = "try" /\ todo # <<>> /\ Head(todo) = "metric_type"
    /\ Finish(generate_metric_type(fs, config))

\* the end of the try block: return 0
Return ==
    /\ pc = "try" /\ todo = <<>>
    /\ pc' = "exit"
    /\ status' = 0
    /\ now' = now + 1
    /\ UNCHANGED << args, config, todo, fs, opened, calls, start_time, gens, hist, call >>

Next ==
    \/ UsageError
    \/ ParseArgs
    \/ GenerateAllLogs
    \/ GenerateAllMetrics
    \/ GenerateAllTraces
    \/ GenerateMetricType
    \/ Return

Spec == Init /\ [][Next]_vars

(***************************************************************************)
(* GenSpec: generators under test.  One or two generators of one signal    *)
(* type are constructed, the second at any moment, and every generation    *)
(* call is made on each generator constructed so far; hist keeps, per      *)
(* generator, the calls made and what they returned.                       *)
(***************************************************************************)
\* most calls made on one generator
MaxCalls == 2

Seeds == { SEED, SEED + 1 }

GenSizes == { 0, 1, MaxSize }

Counts == { 1, MaxCount }

Kinds == { "logs", "metrics", "traces" }

NewGenerator(kind, cfg) ==
    CASE kind = "logs" -> LogsGenerator(cfg)
      [] kind = "metrics" -> MetricsGenerator(cfg)
      [] kind = "traces" -> TracesGenerator(cfg)

GenInit ==
    /\ MainIdle
    /\ config = DefaultConfig
    /\ pc = "generators"
    /\ fs = InitialFiles
    /\ opened = <<>>
    /\ calls = <<>>
    /\ now = 0
    /\ HarnessIdle

\* kind.capitalize() + "Generator"(GenerationConfig(seed=seed, size_mb=size_mb))
Construct(kind, seed, size_mb) ==
    /\ Len(gens) < 2
    /\ gens # <<>> => kind = gens[1].kind
    /\ gens' = Append(gens, [kind |-> kind,
                             self |-> NewGenerator(kind,
                                          GenerationConfig(seed, FALSE, <<>>, size_mb))])
    /\ hist' = Append(hist, <<>>)
    /\ now' = now + 1
    /\ UNCHANGED << args, config, pc, todo, fs, opened, calls, status, start_time, call >>

\* the operation op, handed count, has returned results[i] on generator i
Called(op, count, results) ==
    /\ \A i \in DOMAIN hist : Len(hist[i]) < MaxCalls
    /\ gens' = [i \in DOMAIN gens |-> [gens[i] EXCEPT !.self.rng = results[i].rng]]
    /\ hist' = [i \in DOMAIN hist |->
                  Append(hist[i], [op |-> op, count |-> count,
                                   pre |-> gens[i].self.rng,
                                   ret |-> results[i].ret])]
    /\ now' = now + 1
    /\ UNCHANGED << args, config, pc, todo, fs, opened, calls, status, start_time, call >>

Built(kind) == gens # <<>> /\ gens[1].kind = kind

GenerateSingleLog ==
    /\ Built("logs")
    /\ Called("generate_single_log", 0,
              [i \in DOMAIN gens |-> generate_single_log(gens[i].self, Str("frontend-proxy"))])

GenerateBatchLogs ==
    /\ Built("logs")
    /\ \E count \in Counts :
          Called("generate_batch_logs", count,
                 [i \in DOMAIN gens |-> generate_batch_logs(gens[i].self, count)])

GenerateSingleTrace ==
    /\ Built("traces")
    /\ Called("generate_single_trace", 0,
              [i \in DOMAIN gens |-> generate_single_trace(gens[i].self)])

GenerateBatchTraces ==
    /\ Built("traces")
    /\ \E count \in Counts :
          Called("generate_batch_traces", count,
                 [i \in DOMAIN gens |-> generate_batch_traces(gens[i].self, count)])

GenerateGauge ==
    /\ Built("metrics")
    /\ Called("generate_gauge", 0, [i \in DOMAIN gens |-> generate_gauge(gens[i].self)])

GenerateSum ==
    /\ Built("metrics")
    /\ Called("generate_sum", 0, [i \in DOMAIN gens |-> generate_sum(gens[i].self)])

GenerateHistogram ==
    /\ Built("metrics")
    /\ Called("generate_histogram", 0,
              [i \in DOMAIN gens |-> generate_histogram(gens[i].self)])

GenerateExponentialHistogram ==
    /\ Built("metrics")
    /\ Called("generate_exponential_histogram", 0,
              [i \in DOMAIN gens |-> generate_exponential_histogram(gens[i].self)])

GenerateSummary ==
    /\ Built("metrics")
    /\ Called("generate_summary", 0,
              [i \in DOMAIN gens |-> generate_summary(gens[i].self)])

GenerateMixed ==
    /\ Built("metrics")
    /\ Called("generate_mixed", 0, [i \in DOMAIN gens |-> generate_mixed(gens[i].self)])

GenNext ==
    \/ \E kind \in Kinds, seed \in Seeds, size_mb \in GenSizes : Construct(kind, seed, size_mb)
    \/ GenerateSingleLog
    \/ GenerateBatchLogs
    \/ GenerateSingleTrace
    \/ GenerateBatchTraces
    \/ GenerateGauge
    \/ GenerateSum
    \/ GenerateHistogram
    \/ GenerateExponentialHistogram
    \/ GenerateSummary
    \/ GenerateMixed

GenSpec == GenInit /\ [][GenNext]_vars

(***************************************************************************)
(* ExportSpec: exporters under test.  One exporter is called once on       *)
(* HarnessPath, which either does not exist or holds earlier content, with *)
(* a document or a list of documents; call keeps what was called, with     *)
(* what, what the path held before and whether the call raised.            *)
(***************************************************************************)
\* a service name with two spaces between its words
SpacedName == << "edge", " ", " ", "proxy" >>

\* the documents the lists are made of: two logs documents, two traces
\* documents, two metrics documents, None, which is no message, and the
\* single log of a service whose name has two consecutive spaces
Pool ==
    generate_batch_logs(LogsGenerator(DefaultConfig), 2).ret
    \o generate_batch_traces(TracesGenerator(DefaultConfig), 2).ret
    \o << generate_gauge(MetricsGenerator(DefaultConfig)).ret,
          generate_sum(MetricsGenerator(DefaultConfig)).ret,
          None,
          generate_single_log(LogsGenerator(DefaultConfig), SpacedName).ret >>

PoolIds == 1..Len(Pool)

\* an input is a list of pool documents, one pool document, or one of the
\* default batches of the standard run
ListInputs ==
    { [type |-> "list", ids |-> ids] :
        ids \in UNION { [1..n -> PoolIds] : n \in 0..MaxRecords } }

DocInputs == { [type |-> "doc", ids |-> <<id>>] : id \in PoolIds }

BatchInputs == { [type |-> "batch_logs", ids |-> <<>>], [type |-> "batch_traces", ids |-> <<>>] }

\* the value handed to the exporter
Value(input) ==
    CASE input.type = "list" -> PyList([k \in DOMAIN input.ids |-> Pool[input.ids[k]]])
      [] input.type = "doc" -> Pool[input.ids[1]]
      [] input.type = "batch_logs" ->
            PyList(generate_batch_logs(LogsGenerator(DefaultConfig), DefaultLogCount).ret)
      [] input.type = "batch_traces" ->
            PyList(generate_batch_traces(TracesGenerator(DefaultConfig), DefaultTraceCount).ret)

\* what HarnessPath holds before the call, when it exists
Earlier == TextFile(<<"earlier">>)

ExportInit ==
    /\ MainIdle
    /\ config = DefaultConfig
    /\ pc = "exporters"
    /\ fs \in { InitialFiles, [InitialFiles EXCEPT ![HarnessPath] = Earlier] }
    /\ opened = <<>>
    /\ calls = <<>>
    /\ now = 0
    /\ HarnessIdle

\* the exporter fn, called with input, ended with outcome o
Exported(fn, input, indent, o) ==
    /\ call = NoCall
    /\ fs' = o.fs
    /\ opened' = o.opened
    /\ call' = [fn |-> fn, input |-> input, indent |-> indent,
                before |-> fs[HarnessPath], raised |-> o.raised]
    /\ now' = now + 1
    /\ UNCHANGED << args, config, pc, todo, calls, status, start_time, gens, hist >>

ExportToJson ==
    \E input \in DocInputs, indent \in { 0, 2 } :
        Exported("export_to_json", input, indent,
                 export_to_json(fs, Value(input), HarnessPath, indent))

ExportToJsonl ==
    \E input \in ListInputs \cup BatchInputs :
        Exported("export_to_jsonl", input, 0,
                 export_to_jsonl(fs, Value(input), HarnessPath))

ExportToProtobuf ==
    \E input \in ListInputs \cup BatchInputs \cup DocInputs :
        Exported("export_to_protobuf", input, 0,
                 export_to_protobuf(fs, Value(input), HarnessPath))

ExportNext ==
    \/ ExportToJson
    \/ ExportToJsonl
    \/ ExportToProtobuf

ExportSpec == ExportInit /\ [][ExportNext]_vars

(***************************************************************************)
(* EstimateSpec: the record count estimates under test.  For target sizes  *)
(* from 1 MB up, the count generate_batch_logs, generate_batch_traces and  *)
(* _scale_datapoints work with is taken; hist keeps the estimates taken.   *)
(***************************************************************************)
\* the sizes, in units of 1/1024 MB, go from 1 MB to 1 MB + MaxExtra units
MaxExtra == 6
\* most estimates taken in one behaviour
MaxEstimates == 2

\* 1 MB and the sizes just above it, 2 MB and 50 MB
EstimateSizes == { Kibi + k : k \in 0..MaxExtra } \cup { 2 * Kibi, 50 * Kibi }

EstimateInit ==
    /\ MainIdle
    /\ config = DefaultConfig
    /\ pc = "estimates"
    /\ fs = InitialFiles
    /\ opened = <<>>
    /\ calls = <<>>
    /\ now = 0
    /\ HarnessIdle

\* the operation of the signal, on a generator of the target size, has
\* worked with n records
Estimated(signal, size_mb, n) ==
    /\ pc = "estimates"
    /\ Len(hist) < MaxEstimates
    /\ hist' = Append(hist, [signal |-> signal, size_mb |-> size_mb, count |-> n])
    /\ now' = now + 1
    /\ UNCHANGED << args, config, pc, todo, fs, opened, calls, status, start_time,
                    gens, call >>

EstimateLogs ==
    \E size_mb \in EstimateSizes, count \in Counts :
        Estimated("logs", size_mb,
                  LogsCount(LogsGenerator(GenerationConfig(SEED, FALSE, <<>>, size_mb)).config,
                            count))

EstimateTraces ==
    \E size_mb \in EstimateSizes, count \in Counts :
        Estimated("traces", size_mb,
                  TracesCount(TracesGenerator(GenerationConfig(SEED, FALSE, <<>>, size_mb)).config,
                              count))

EstimateDataPoints ==
    \E size_mb \in EstimateSizes, base_count \in Counts :
        Estimated("metrics", size_mb,
                  _scale_datapoints(MetricsGenerator(GenerationConfig(SEED, FALSE, <<>>, size_mb)),
                                    base_count))

EstimateNext ==
    \/ EstimateLogs
    \/ EstimateTraces
    \/ EstimateDataPoints

EstimateSpec == EstimateInit /\ [][EstimateNext]_vars

(***************************************************************************)
(* AttrSpec: make_attribute under test.  It is called with a key and a     *)
(* value of one of the kinds str, int, bool, float and NoneType; hist      *)
(* keeps the calls made and what came of them.                             *)
(***************************************************************************)
\* most calls of make_attribute in one behaviour
MaxAttributes == 2
\* the integers handed over are -MaxInt .. MaxInt
MaxInt == 2

AttrKeys == { "enabled", "http.status_code" }

AttrStrings == { "", "true", "1" }

AttrInts == (0 - MaxInt)..MaxInt

AttrInit ==
    /\ MainIdle
    /\ config = DefaultConfig
    /\ pc = "attributes"
    /\ fs = InitialFiles
    /\ opened = <<>>
    /\ calls = <<>>
    /\ now = 0
    /\ HarnessIdle

\* make_attribute(key, value) has been called
Made(key, value) ==
    /\ pc = "attributes"
    /\ Len(hist) < MaxAttributes
    /\ hist' = Append(hist, [key |-> key, value |-> value,
                             ret |-> make_attribute(key, value)])
    /\ now' = now + 1
    /\ UNCHANGED << args, config, pc, todo, fs, opened, calls, status, start_time,
                    gens, call >>

MakeAttribute ==
    \E key \in AttrKeys :
        \/ \E s \in AttrStrings : Made(key, PyStr(s))
        \/ \E i \in AttrInts : Made(key, PyInt(i))
        \/ \E b \in BOOLEAN : Made(key, PyBool(b))
        \/ Made(key, PyFloat(Dbl(1, 50)))
        \/ Made(key, [t |-> "NoneType", v |-> <<>>])

AttrNext == MakeAttribute

AttrSpec == AttrInit /\ [][AttrNext]_vars

(***************************************************************************)
(* SeveritySpec: the log records of one LogsGenerator.  _make_log_record   *)
(* is called with every severity number, with and without a trace id, and  *)
(* the two generation operations are called; hist keeps the records made.  *)
(***************************************************************************)
\* the severity numbers handed over are 0 .. MaxSeverity
MaxSeverity == 24
\* most calls on the generator in one behaviour
MaxLogCalls == 2

Severities == 0..MaxSeverity

SeverityInit ==
    /\ MainIdle
    /\ config = DefaultConfig
    /\ pc = "severity"
    /\ fs = InitialFiles
    /\ opened = <<>>
    /\ calls = <<>>
    /\ now = 0
    /\ \E seed \in Seeds :
          gens = << [kind |-> "logs",
                     self |-> LogsGenerator(GenerationConfig(seed, FALSE, <<>>, 0))] >>
    /\ hist = <<>>
    /\ call = NoCall

\* the operation op, handed severity where it takes one, has made the
\* records and left the stream at rng
Logged(op, severity, records, rng) ==
    /\ pc = "severity"
    /\ Len(hist) < MaxLogCalls
    /\ gens' = [gens EXCEPT ![1].self.rng = rng]
    /\ hist' = Append(hist, [op |-> op, severity |-> severity, records |-> records])
    /\ now' = now + 1
    /\ UNCHANGED << args, config, pc, todo, fs, opened, calls, status, start_time, call >>

\* self._make_log_record(body, severity, trace_id=trace_id)
MadeLogRecord(severity, r) == Logged("_make_log_record", severity, << r.ret >>, r.rng)

MakeLogRecord ==
    \E severity \in Severities :
        \/ MadeLogRecord(severity,
               _make_log_record(gens[1].self, Str("body"), severity, <<>>,
                                EmptyBytes, EmptyBytes, Seconds(0)))
        \/ MadeLogRecord(severity,
               _make_log_record(gens[1].self, Str("body"), severity, <<>>,
                                Bytes(16, 1), EmptyBytes, Seconds(0)))

\* the log records of a document, in order
LogRecordsOf(data) == data.resource_logs[1].scope_logs[1].log_records

SingleLogRecords(r) == Logged("generate_single_log", 0, LogRecordsOf(r.ret), r.rng)

SeveritySingleLog == SingleLogRecords(generate_single_log(gens[1].self, Str("frontend-proxy")))

BatchLogRecords(r) ==
    Logged("generate_batch_logs", 0,
           [n \in DOMAIN r.ret |-> LogRecordsOf(r.ret[n])[1]], r.rng)

SeverityBatchLogs == BatchLogRecords(generate_batch_logs(gens[1].self, MaxCount))

SeverityNext ==
    \/ MakeLogRecord
    \/ SeveritySingleLog
    \/ SeverityBatchLogs

SeveritySpec == SeverityInit /\ [][SeverityNext]_vars

(***************************************************************************)
(* Properties of a run of main (Spec).                                     *)
(***************************************************************************)
Range(seq) == { seq[k] : k \in DOMAIN seq }

SizeRun == pc # "start" /\ config.size_mb # 0

\* the baseline fixtures hold what is checked in
BaselineUntouched(names) == \A n \in names : fs[n] = CheckedIn(n)

\* C3: in a run with a target size configured, whatever the selector, no
\* file is written under a baseline name.  The metrics exports do not go
\* through get_output_path, so this does not hold.
C3_NoBaselineNameWritten ==
    SizeRun => Range(opened) \cap BaselineNames = {}

LargeFilesOf(signal) == << signal \o "_large.jsonl", signal \o "_large.pb" >>

SingleOperationOf(signal) ==
    IF signal = "logs" THEN "generate_single_log" ELSE "generate_single_trace"

BaselineFilesOf(signal) ==
    IF signal = "logs" THEN { "log.json", "logs.jsonl", "logs.pb" }
    ELSE { "trace.json", "trace.pb", "traces.jsonl", "traces.pb" }

\* C5: a finished run with a target size and selector logs (resp. traces)
\* has not invoked the single-record operation, has written exactly
\* <signal>_large.jsonl and <signal>_large.pb, and has left the baseline
\* files of the signal (and every other file) as they were.
C5_SizeRunWritesOnlyLargeFiles ==
    (pc = "exit" /\ config.size_mb # 0 /\ config.only \in { <<"logs">>, <<"traces">> }) =>
        /\ status = 0
        /\ SingleOperationOf(config.only[1]) \notin Range(calls)
        /\ opened = LargeFilesOf(config.only[1])
        /\ \A n \in Range(opened) : fs[n].exists /\ fs[n] # InitialFiles[n]
        /\ BaselineUntouched(BaselineFilesOf(config.only[1]))
        /\ \A n \in FileNames \ Range(opened) : fs[n] = InitialFiles[n]

C5_Witness ==
    /\ pc = "exit"
    /\ config.size_mb = MaxSize
    /\ config.only = <<"logs">>
    /\ calls = <<"generate_batch_logs">>
    /\ fs["logs_large.jsonl"].exists
    /\ fs["logs_large.pb"].exists

\* the selector values the specification recognises; <<>> is no selector
Recognised ==
    { <<>>, <<"logs">>, <<"traces">>, <<"metrics">>,
      <<"metrics-", "gauge">>, <<"metrics-", "sum">>, <<"metrics-", "histogram">>,
      <<"metrics-", "exponential-histogram">>, <<"metrics-", "summary">>,
      <<"metrics-", "mixed">> }

\* C16: a run given a selector outside the recognised set ends at once with
\* the usage error (exit status 2): nothing of the try block is planned or
\* run, no generator operation is invoked, no path is opened and every file
\* is as it was.
C16_UnknownSelectorRejected ==
    (args.only \notin Recognised /\ pc # "start") =>
        /\ pc = "exit"
        /\ status = 2
        /\ todo = <<>>
        /\ calls = <<>>
        /\ opened = <<>>
        /\ fs = InitialFiles

\* a run given metrics-bogus, which main would take for a metric type, has
\* ended with the usage error
C16_Witness ==
    /\ pc = "exit"
    /\ args.only = << "metrics-", "bogus" >>
    /\ args.size_mb = MaxSize
    /\ status = 2
    /\ fs = InitialFiles

\* one call of the try block of main, as a function of the files and the
\* configuration
StepOf(name, files, cfg) ==
    CASE name = "logs" -> generate_all_logs(files, cfg)
      [] name = "metrics" -> generate_all_metrics(files, cfg)
      [] name = "traces" -> generate_all_traces(files, cfg)
      [] name = "metric_type" -> generate_metric_type(files, cfg)

RECURSIVE RunFrom(_, _, _)

\* acc after the call that returned r, and then the rest of the plan
RunAfter(acc, cfg, plan, r) ==
    IF r.raised
    THEN [fs |-> r.fs, opened |-> acc.opened \o r.opened,
          calls |-> acc.calls \o r.calls, status |-> 1]
    ELSE RunFrom([fs |-> r.fs, opened |-> acc.opened \o r.opened,
                  calls |-> acc.calls \o r.calls, status |-> -1],
                 cfg, Tail(plan))

\* the try block of main as a function: the files, the paths opened, the
\* generator operations invoked and the exit status at the end of the plan
RunFrom(acc, cfg, plan) ==
    IF plan = <<>> THEN [acc EXCEPT !.status = 0]
    ELSE RunAfter(acc, cfg, plan, StepOf(Head(plan), acc.fs, cfg))

\* the run of main on the command line of this run with verbose negated
OtherVerboseRun ==
    RunFrom([fs |-> InitialFiles, opened |-> <<>>, calls |-> <<>>, status |-> -1],
            GenerationConfig(SEED, ~args.verbose, args.only, args.size_mb),
            Plan(args.only))

\* C17: a finished run has written the same files with the same content,
\* opened the same paths, invoked the same generator operations and ended
\* with the same status as the run with the same selector and target size
\* and the other value of verbose.
C17_VerboseChangesNothing ==
    (pc = "exit" /\ args.only \in Recognised) =>
        [fs |-> fs, opened |-> opened, calls |-> calls, status |-> status] = OtherVerboseRun

\* a finished verbose run of every signal with a target size
C17_Witness ==
    /\ pc = "exit"
    /\ args.verbose
    /\ args.only = <<>>
    /\ args.size_mb = MaxSize
    /\ status = 0
    /\ fs["logs_large.jsonl"].exists
    /\ fs["traces_large.pb"].exists

\* C18: a finished run of any selector the command line accepts (none, logs,
\* traces, metrics, metrics-gauge, metrics-sum, metrics-histogram,
\* metrics-exponential-histogram, metrics-summary, metrics-mixed) has invoked
\* a generation operation, has written files, and has exit status 0.  For
\* metrics-exponential-histogram main looks up the attribute
\* generate_exponential-histogram, which the generator does not have, so
\* this does not hold.
C18_EveryAcceptedSelectorSucceeds ==
    (pc = "exit" /\ args.only \in Recognised) =>
        /\ status = 0
        /\ calls # <<>>
        /\ opened # <<>>
        /\ \A n \in Range(opened) : fs[n].exists

Signals == { "logs", "metrics", "traces" }

\* the run of main on the command line of this run with the selector only
SelectorRun(only) ==
    RunFrom([fs |-> InitialFiles, opened |-> <<>>, calls |-> <<>>, status |-> -1],
            GenerationConfig(SEED, args.verbose, only, args.size_mb),
            Plan(only))

\* the run has written the files the run other has written, with the same
\* content
WritesOf(other) ==
    /\ other.status = 0
    /\ Range(other.opened) \subseteq Range(opened)
    /\ \A n \in Range(other.opened) : fs[n] = other.fs[n]

\* the run has written the files of the three runs, in that order, and no
\* other
WritesOfAll(logs, metrics, traces) ==
    /\ WritesOf(logs)
    /\ WritesOf(metrics)
    /\ WritesOf(traces)
    /\ opened = logs.opened \o metrics.opened \o traces.opened

\* every file the run has written has the content the run other gives it
WrittenAsIn(other) == \A n \in Range(opened) : fs[n] = other.fs[n]

\* C23: a finished run of all signals has written, for each signal, the
\* files the run of that signal alone writes, with the same content, and no
\* other file; a finished run of one signal has written its files with the
\* content the run of all signals gives them.
C23_SignalFilesSameAloneOrTogether ==
    /\ (pc = "exit" /\ args.only = <<>>) =>
          /\ status = 0
          /\ WritesOfAll(SelectorRun(<<"logs">>), SelectorRun(<<"metrics">>),
                         SelectorRun(<<"traces">>))
    /\ (pc = "exit" /\ args.only \in { << signal >> : signal \in Signals }) =>
          /\ status = 0
          /\ opened # <<>>
          /\ WrittenAsIn(SelectorRun(<<>>))

\* a finished run of all signals with no target size: the files of the
\* three signals are written
C23_Witness ==
    /\ pc = "exit"
    /\ args.only = <<>>
    /\ args.size_mb = 0
    /\ status = 0
    /\ calls[1] = "generate_single_log"
    /\ fs["logs.pb"] # InitialFiles["logs.pb"]
    /\ fs["metrics_gauge.json"].exists
    /\ fs["traces.jsonl"] # InitialFiles["traces.jsonl"]

(***************************************************************************)
(* Properties of the generators (GenSpec).                                 *)
(***************************************************************************)
IsBatch(op) == op \in { "generate_batch_logs", "generate_batch_traces" }

\* the documents a call returned, as a list
Documents(e) == IF IsBatch(e.op) THEN e.ret ELSE << e.ret >>

\* what the three exporters write for what a call returned
Exports(e) ==
    [json |-> [k \in DOMAIN Documents(e) |->
                  export_to_json(InitialFiles, Documents(e)[k], HarnessPath, 2).fs[HarnessPath]],
     jsonl |-> export_to_jsonl(InitialFiles, PyList(Documents(e)), HarnessPath).fs[HarnessPath],
     pb |-> export_to_protobuf(InitialFiles,
                               IF IsBatch(e.op) THEN PyList(e.ret) ELSE e.ret,
                               HarnessPath).fs[HarnessPath]]

SeedOf(i) == gens[i].self.config.seed

SizeOf(i) == gens[i].self.config.size_mb

SameSetup(i, j) ==
    /\ gens[i].kind = gens[j].kind
    /\ SeedOf(i) = SeedOf(j)
    /\ SizeOf(i) = SizeOf(j)

SameCalls(i, j) ==
    /\ Len(hist[i]) = Len(hist[j])
    /\ \A k \in DOMAIN hist[i] :
          hist[i][k].op = hist[j][k].op /\ hist[i][k].count = hist[j][k].count

Shape(e) == [op |-> e.op, n |-> Len(Documents(e))]

\* the calls made on generator i before its k-th
EarlierCalls(i, k) == [m \in 1..(k - 1) |-> Shape(hist[i][m])]

\* C2 as claimed: the batch a generator returns depends on its seed and on
\* the number of records only, not on the calls made on it before.
C2_BatchFunctionOfSeedAndCount ==
    \A i, j \in DOMAIN gens : \A k \in DOMAIN hist[i], l \in DOMAIN hist[j] :
        (/\ IsBatch(hist[i][k].op)
         /\ hist[i][k].op = hist[j][l].op
         /\ SeedOf(i) = SeedOf(j)
         /\ Len(hist[i][k].ret) = Len(hist[j][l].ret))
        => hist[i][k].ret = hist[j][l].ret

\* C2 amended: the batch depends on the seed, on the number of records
\* (whether it came from the count argument or from the size estimate) and
\* on the calls made on the generator before, each of which advances its
\* stream: after the same earlier calls, equal seeds and equal numbers of
\* records give equal batches.
C2_BatchFunctionOfSeedCountAndEarlierCalls ==
    \A i, j \in DOMAIN gens : \A k \in DOMAIN hist[i], l \in DOMAIN hist[j] :
        (/\ IsBatch(hist[i][k].op)
         /\ hist[i][k].op = hist[j][l].op
         /\ SeedOf(i) = SeedOf(j)
         /\ Len(hist[i][k].ret) = Len(hist[j][l].ret)
         /\ EarlierCalls(i, k) = EarlierCalls(j, l))
        => hist[i][k].ret = hist[j][l].ret

\* a fresh generator with no target size, asked for MaxCount records, and a
\* fresh generator with a target size whose estimate is MaxCount
C2_Witness ==
    /\ Len(gens) = 2
    /\ gens[1].kind = "logs"
    /\ SeedOf(1) = SeedOf(2)
    /\ SizeOf(1) = 0
    /\ SizeOf(2) = MaxSize
    /\ Len(hist[1]) = 1
    /\ Len(hist[2]) = 1
    /\ hist[1][1].op = "generate_batch_logs"
    /\ Len(hist[1][1].ret) = Len(hist[2][1].ret)
    /\ hist[1][1].ret = hist[2][1].ret

\* floor(size_mb * 1024 * 1024 / avg), at least 1, for a size in units of
\* 1/1024 MB, as the only n with n * avg <= bytes < (n + 1) * avg
ExpectedCount(size_mb, avg) ==
    LET n == CHOOSE n \in 0..(2 * size_mb) :
                 n * avg <= size_mb * Kibi /\ size_mb * Kibi < (n + 1) * avg
    IN  IF n >= 1 THEN n ELSE 1

CpuDataPoints(data) ==
    data.resource_metrics[1].scope_metrics[1].metrics[1].gauge.data_points

\* C4: on a generator with a target size, the logs batch, the traces batch
\* and the cpu gauge hold max(1, floor(size_mb * 1024 * 1024 / avg)) records
\* with avg 1500, 2000 and 800, whatever count was handed to the batch; for
\* 50 MB of logs that is floor(50 * 1024 * 1024 / 1500).
C4_EstimatedRecordCount ==
    /\ \A i \in DOMAIN gens : \A k \in DOMAIN hist[i] :
          SizeOf(i) # 0 =>
             /\ hist[i][k].op = "generate_batch_logs" =>
                   Len(hist[i][k].ret) = ExpectedCount(SizeOf(i), 1500)
             /\ hist[i][k].op = "generate_batch_traces" =>
                   Len(hist[i][k].ret) = ExpectedCount(SizeOf(i), 2000)
             /\ hist[i][k].op = "generate_gauge" =>
                   Len(CpuDataPoints(hist[i][k].ret)) = ExpectedCount(SizeOf(i), 800)
    /\ LogsCount(GenerationConfig(SEED, FALSE, <<>>, 50 * Kibi), DefaultLogCount) * 1500
          <= 50 * Kibi * Kibi
    /\ 50 * Kibi * Kibi
          < (LogsCount(GenerationConfig(SEED, FALSE, <<>>, 50 * Kibi), DefaultLogCount) + 1) * 1500

\* a size whose estimate is below one record, and one whose estimate differs
\* from the count handed over
C4_Witness ==
    /\ Len(gens) = 2
    /\ gens[1].kind = "logs"
    /\ SizeOf(1) = 1
    /\ SizeOf(2) = MaxSize
    /\ Len(hist[1]) = 1
    /\ hist[1][1].op = "generate_batch_logs"
    /\ hist[1][1].count = MaxCount
    /\ Len(hist[1][1].ret) = 1
    /\ Len(hist[2][1].ret) > 1

\* a <= b for 64 bit integers
I64Le(a, b) == a.q < b.q \/ (a.q = b.q /\ a.r <= b.r)

\* the spans of a traces document
Spans(data) ==
    UNION { Range(ss.spans) :
            ss \in UNION { Range(rs.scope_spans) : rs \in Range(data.resource_spans) } }

EndsAfterStart(span) == I64Le(span.start_time_unix_nano, span.end_time_unix_nano)

IsTraceOp(op) == op \in { "generate_single_trace", "generate_batch_traces" }

\* the batch of the default count on a fresh generator
DefaultTraceBatch ==
    generate_batch_traces(TracesGenerator(DefaultConfig), DefaultTraceCount).ret

\* C11: every span of every document returned by generate_single_trace and
\* by generate_batch_traces, whatever the seed, the count and the calls made
\* before, ends no earlier than it starts; so does every span of the default
\* batch of 19 (looked at once, in the state before any generator is built).
C11_SpanEndsAfterStart ==
    /\ \A i \in DOMAIN gens : \A k \in DOMAIN hist[i] :
          IsTraceOp(hist[i][k].op) =>
             \A data \in Range(Documents(hist[i][k])) :
                \A span \in Spans(data) : EndsAfterStart(span)
    /\ gens = <<>> =>
          \A k \in DOMAIN DefaultTraceBatch :
             \A span \in Spans(DefaultTraceBatch[k]) : EndsAfterStart(span)

\* the single trace and then a batch of MaxCount, with a span of the batch
\* that ends after it starts
C11_Witness ==
    /\ gens # <<>>
    /\ gens[1].kind = "traces"
    /\ Len(hist[1]) = 2
    /\ hist[1][1].op = "generate_single_trace"
    /\ Cardinality(Spans(hist[1][1].ret)) = 2
    /\ hist[1][2].op = "generate_batch_traces"
    /\ Len(hist[1][2].ret) = MaxCount
    /\ \E span \in Spans(hist[1][2].ret[MaxCount]) :
          span.end_time_unix_nano # span.start_time_unix_nano

\* the metrics of a metrics document
Metrics(data) ==
    UNION { Range(sm.metrics) :
            sm \in UNION { Range(rm.scope_metrics) : rm \in Range(data.resource_metrics) } }

\* the data points of the metrics of a document that carry the given data
\* field ("gauge", "sum", "histogram", "exponential_histogram", "summary")
PointsOf(data, field) ==
    UNION { Range(metric[field].data_points) :
            metric \in { m \in Metrics(data) : field \in DOMAIN m } }

\* C12: every histogram data point of the documents returned by
\* generate_histogram and by generate_mixed has one bucket count more than
\* it has explicit bounds.
C12_BucketCountsOneMoreThanBounds ==
    \A i \in DOMAIN gens : \A k \in DOMAIN hist[i] :
        hist[i][k].op \in { "generate_histogram", "generate_mixed" } =>
            \A point \in PointsOf(hist[i][k].ret, "histogram") :
                Len(point.bucket_counts) = Len(point.explicit_bounds) + 1

\* generate_histogram (three points, of six, six and five buckets) and then
\* generate_mixed (one point of five buckets) on one generator
C12_Witness ==
    /\ gens # <<>>
    /\ gens[1].kind = "metrics"
    /\ Len(hist[1]) = 2
    /\ hist[1][1].op = "generate_histogram"
    /\ Cardinality(PointsOf(hist[1][1].ret, "histogram")) = 3
    /\ { Len(point.bucket_counts) : point \in PointsOf(hist[1][1].ret, "histogram") } = { 5, 6 }
    /\ hist[1][2].op = "generate_mixed"
    /\ Cardinality(PointsOf(hist[1][2].ret, "histogram")) = 1

\* a <= b and a < b for doubles held as whole part and hundredths
DblLe(a, b) == a.w < b.w \/ (a.w = b.w /\ a.c <= b.c)

DblLt(a, b) == a.w < b.w \/ (a.w = b.w /\ a.c < b.c)

\* C13: every summary data point returned by generate_summary lists its
\* quantile entries from quantile 0.0 to quantile 1.0 with the quantile
\* increasing, and the values do not decrease along that order.
C13_QuantileValuesNonDecreasing ==
    \A i \in DOMAIN gens : \A k \in DOMAIN hist[i] :
        hist[i][k].op = "generate_summary" =>
            \A point \in PointsOf(hist[i][k].ret, "summary") :
                /\ point.quantile_values # <<>>
                /\ point.quantile_values[1].quantile = Dbl(0, 0)
                /\ point.quantile_values[Len(point.quantile_values)].quantile = Dbl(1, 0)
                /\ \A m \in 1..(Len(point.quantile_values) - 1) :
                      /\ DblLt(point.quantile_values[m].quantile,
                               point.quantile_values[m + 1].quantile)
                      /\ DblLe(point.quantile_values[m].value,
                               point.quantile_values[m + 1].value)

\* generate_summary has returned its two points of six quantiles each
C13_Witness ==
    /\ gens # <<>>
    /\ gens[1].kind = "metrics"
    /\ hist[1] # <<>>
    /\ hist[1][1].op = "generate_summary"
    /\ Cardinality(PointsOf(hist[1][1].ret, "summary")) = 2
    /\ \A point \in PointsOf(hist[1][1].ret, "summary") : Len(point.quantile_values) = 6

\* one resource group, one scope, one record: INFO, a trace id of 16 bytes,
\* a span id of 8 bytes, flags 1 (sampled)
SingleLogAsClaimed(data) ==
    /\ data.msg = "LogsData"
    /\ Len(data.resource_logs) = 1
    /\ Len(data.resource_logs[1].scope_logs) = 1
    /\ Len(data.resource_logs[1].scope_logs[1].log_records) = 1
    /\ LET log == data.resource_logs[1].scope_logs[1].log_records[1]
       IN  /\ log.severity_text = << "INFO" >>
           /\ log.severity_number = SEVERITY_NUMBER_INFO
           /\ log.trace_id.n = 16
           /\ log.trace_id # EmptyBytes
           /\ log.span_id.n = 8
           /\ log.flags = 1

\* C15: generate_single_log returns one document with exactly one resource
\* group, one scope and one log record, whose severity text is "INFO", whose
\* trace id has 16 bytes, whose span id has 8 bytes and whose sampled flag is
\* set: on the generators built (seed 42 and another seed, fresh or after
\* other calls) and, looked at once in the state before any generator is
\* built, on a fresh generator of every seed.
C15_SingleLogShape ==
    /\ \A i \in DOMAIN gens : \A k \in DOMAIN hist[i] :
          hist[i][k].op = "generate_single_log" => SingleLogAsClaimed(hist[i][k].ret)
    /\ gens = <<>> =>
          \A seed \in 0..(RngModulus - 1) :
             SingleLogAsClaimed(
                generate_single_log(LogsGenerator(GenerationConfig(seed, FALSE, <<>>, 0)),
                                    Str("frontend-proxy")).ret)

\* the first call on a generator of seed 42 was generate_single_log
C15_Witness ==
    /\ gens # <<>>
    /\ gens[1].kind = "logs"
    /\ SeedOf(1) = SEED
    /\ hist[1] # <<>>
    /\ hist[1][1].op = "generate_single_log"
    /\ hist[1][1].pre = Random(SEED)
    /\ hist[1][1].ret.resource_logs[1].scope_logs[1].log_records[1].flags = 1

\* the sum of a list of 64 bit integers
RECURSIVE I64Sum(_)
I64Sum(xs) == IF xs = <<>> THEN I64(0) ELSE I64Add(Head(xs), I64Sum(Tail(xs)))

\* C21: the bucket counts of every histogram data point of the documents
\* returned by generate_histogram and by generate_mixed sum to the count of
\* the point.
C21_BucketCountsSumToCount ==
    \A i \in DOMAIN gens : \A k \in DOMAIN hist[i] :
        hist[i][k].op \in { "generate_histogram", "generate_mixed" } =>
            \A point \in PointsOf(hist[i][k].ret, "histogram") :
                I64Sum(point.bucket_counts) = point.count

\* generate_mixed (a point of count 100) and then generate_histogram (points
\* of counts 1543, 892 and 5234) on one generator
C21_Witness ==
    /\ gens # <<>>
    /\ gens[1].kind = "metrics"
    /\ Len(hist[1]) = 2
    /\ hist[1][1].op = "generate_mixed"
    /\ { point.count : point \in PointsOf(hist[1][1].ret, "histogram") } = { I64(100) }
    /\ hist[1][2].op = "generate_histogram"
    /\ { point.count : point \in PointsOf(hist[1][2].ret, "histogram") }
          = { I64(1543), I64(892), I64(5234) }

\* the counts of the buckets of an exponential histogram data point
CountedInBuckets(point) ==
    I64Add(point.zero_count,
           I64Add(I64Sum(point.positive.bucket_counts), I64Sum(point.negative.bucket_counts)))

\* C22: the count of every exponential histogram data point returned by
\* generate_exponential_histogram is its zero count plus the sum of its
\* positive bucket counts plus the sum of its negative bucket counts.  The
\* second point has count 1832, zero count 3 and positive bucket counts that
\* sum to 1831, so this does not hold.
C22_ExponentialCountIsBucketTotal ==
    \A i \in DOMAIN gens : \A k \in DOMAIN hist[i] :
        hist[i][k].op = "generate_exponential_histogram" =>
            \A point \in PointsOf(hist[i][k].ret, "exponential_histogram") :
                point.count = CountedInBuckets(point)

\* the operations of the metrics generator other than generate_gauge
UnscaledOps ==
    { "generate_sum", "generate_histogram", "generate_exponential_histogram",
      "generate_summary", "generate_mixed" }

\* what the operation returns on a generator of the same seed built with no
\* target size
WithoutSize(op, seed) ==
    CallMethod(MetricsGenerator(GenerationConfig(seed, FALSE, <<>>, 0)), op).r.ret

GaugeMetrics(data) == data.resource_metrics[1].scope_metrics[1].metrics

\* C24: whatever the target size of the generator, generate_sum,
\* generate_histogram, generate_exponential_histogram, generate_summary and
\* generate_mixed return the document they return with no target size;
\* generate_gauge returns cpu.usage with 2 points when there is no target
\* size and with the estimated count when there is one, and memory.available
\* with exactly 1 point.
C24_OnlyGaugeDependsOnSize ==
    \A i \in DOMAIN gens : \A k \in DOMAIN hist[i] :
        /\ hist[i][k].op \in UnscaledOps =>
              hist[i][k].ret = WithoutSize(hist[i][k].op, SeedOf(i))
        /\ hist[i][k].op = "generate_gauge" =>
              /\ Len(GaugeMetrics(hist[i][k].ret)) = 2
              /\ GaugeMetrics(hist[i][k].ret)[1].name = Str("cpu.usage")
              /\ Len(GaugeMetrics(hist[i][k].ret)[1].gauge.data_points)
                    = IF SizeOf(i) = 0 THEN 2 ELSE ExpectedCount(SizeOf(i), 800)
              /\ GaugeMetrics(hist[i][k].ret)[2].name = Str("memory.available")
              /\ Len(GaugeMetrics(hist[i][k].ret)[2].gauge.data_points) = 1

\* a generator with no target size and one with the largest, after
\* generate_gauge (2 and more than 2 cpu points) and generate_sum
C24_Witness ==
    /\ Len(gens) = 2
    /\ SizeOf(1) = 0
    /\ SizeOf(2) = MaxSize
    /\ Len(hist[1]) = 2
    /\ hist[1][1].op = "generate_gauge"
    /\ hist[1][2].op = "generate_sum"
    /\ Len(GaugeMetrics(hist[1][1].ret)[1].gauge.data_points) = 2
    /\ Len(GaugeMetrics(hist[2][1].ret)[1].gauge.data_points) > 2
    /\ hist[1][2].ret = hist[2][2].ret

\* a < b for 64 bit integers
I64Lt(a, b) == I64Le(a, b) /\ a # b

\* the log record of a document of one resource group, one scope and one
\* record
OnlyLogRecord(data) == data.resource_logs[1].scope_logs[1].log_records[1]

\* a batch of logs has count documents of one resource group, one scope and
\* one record, the record of the document at index i (from 0) stamped base
\* plus i seconds
LogBatchAsClaimed(batch, count, base) ==
    /\ Len(batch) = count
    /\ \A n \in DOMAIN batch :
          /\ Len(batch[n].resource_logs) = 1
          /\ Len(batch[n].resource_logs[1].scope_logs) = 1
          /\ Len(batch[n].resource_logs[1].scope_logs[1].log_records) = 1
          /\ OnlyLogRecord(batch[n]).time_unix_nano = I64Add(base, [q |-> n - 1, r |-> 0])
    /\ \A n \in DOMAIN batch :
          n > 1 => I64Lt(OnlyLogRecord(batch[n - 1]).time_unix_nano,
                         OnlyLogRecord(batch[n]).time_unix_nano)

DefaultLogBatch ==
    generate_batch_logs(LogsGenerator(DefaultConfig), DefaultLogCount).ret

\* C25: on a generator with no target size, generate_batch_logs(count)
\* returns count documents, each of one resource group, one scope and one
\* log record; the record of the i-th document is stamped the base time plus
\* i seconds, whatever the seed and the calls made before, so the timestamps
\* strictly increase along the batch.  The same holds of the default batch
\* of 81 (looked at once, in the state before any generator is built).
C25_BatchLogsOneRecordPerSecond ==
    /\ \A i \in DOMAIN gens : \A k \in DOMAIN hist[i] :
          (hist[i][k].op = "generate_batch_logs" /\ SizeOf(i) = 0) =>
              LogBatchAsClaimed(hist[i][k].ret, hist[i][k].count, gens[i].self.base_time_ns)
    /\ gens = <<>> =>
          LogBatchAsClaimed(DefaultLogBatch, DefaultLogCount,
                            LogsGenerator(DefaultConfig).base_time_ns)

\* two batches of MaxCount on one generator with no target size: the second
\* starts again at the base time although the stream has moved on
C25_Witness ==
    /\ Len(gens) >= 1
    /\ gens[1].kind = "logs"
    /\ SizeOf(1) = 0
    /\ Len(hist[1]) = 2
    /\ hist[1][1].op = "generate_batch_logs"
    /\ hist[1][2].op = "generate_batch_logs"
    /\ hist[1][1].count = MaxCount
    /\ hist[1][2].count = MaxCount
    /\ hist[1][2].pre # hist[1][1].pre
    /\ OnlyLogRecord(hist[1][2].ret[MaxCount]).time_unix_nano
          = I64Add(gens[1].self.base_time_ns, [q |-> MaxCount - 1, r |-> 0])

\* the span of a document of one resource group, one scope and one span
OnlySpan(data) == data.resource_spans[1].scope_spans[1].spans[1]

\* the span starts at the given time, lasts the given whole number of
\* milliseconds, and its events, at most one, are stamped the start plus
\* half the duration
SpanTimedAs(span, start, duration_ms) ==
    /\ span.start_time_unix_nano = start
    /\ span.end_time_unix_nano = I64Add(start, [q |-> 0, r |-> duration_ms * 1000000])
    /\ Len(span.events) <= 1
    /\ \A e \in DOMAIN span.events :
          /\ span.events[e].time_unix_nano
                = I64Add(start, [q |-> 0, r |-> duration_ms * 500000])
          /\ I64Le(span.start_time_unix_nano, span.events[e].time_unix_nano)
          /\ I64Le(span.events[e].time_unix_nano, span.end_time_unix_nano)

\* every document of a batch of traces holds one span, the one of the
\* document at index i (from 0) starting at base plus i seconds and lasting
\* between 1 and 500 milliseconds
TraceBatchAsClaimed(batch, base) ==
    \A n \in DOMAIN batch :
        /\ Len(batch[n].resource_spans) = 1
        /\ Len(batch[n].resource_spans[1].scope_spans) = 1
        /\ Len(batch[n].resource_spans[1].scope_spans[1].spans) = 1
        /\ \E duration_ms \in 1..500 :
              SpanTimedAs(OnlySpan(batch[n]),
                          I64Add(base, [q |-> n - 1, r |-> 0]), duration_ms)

\* C26: the i-th document returned by generate_batch_traces holds exactly
\* one span, which starts at the base time plus i seconds, lasts a whole
\* number of milliseconds between 1 and 500 and has at most one event; an
\* event is stamped the start time plus half the duration, between the start
\* and the end of the span.  The same holds of the default batch of 19
\* (looked at once, in the state before any generator is built).
C26_BatchSpanTiming ==
    /\ \A i \in DOMAIN gens : \A k \in DOMAIN hist[i] :
          hist[i][k].op = "generate_batch_traces" =>
              TraceBatchAsClaimed(hist[i][k].ret, gens[i].self.base_time_ns)
    /\ gens = <<>> =>
          TraceBatchAsClaimed(DefaultTraceBatch, TracesGenerator(DefaultConfig).base_time_ns)

\* a batch with a span that has an event and a span that has none
C26_Witness ==
    \E i \in DOMAIN gens : \E k \in DOMAIN hist[i] :
        /\ hist[i][k].op = "generate_batch_traces"
        /\ \E n \in DOMAIN hist[i][k].ret :
              /\ n > 1
              /\ Len(OnlySpan(hist[i][k].ret[n]).events) = 1
              /\ I64Lt(OnlySpan(hist[i][k].ret[n]).start_time_unix_nano,
                       OnlySpan(hist[i][k].ret[n]).events[1].time_unix_nano)
        /\ \E n \in DOMAIN hist[i][k].ret : OnlySpan(hist[i][k].ret[n]).events = <<>>

\* the keys of a sequence of attributes, in order
KeysOf(attributes) == [a \in DOMAIN attributes |-> attributes[a].key]

HttpKeys == << Str("http.method"), Str("http.url"), Str("http.status_code"), Str("component") >>

RpcKeys ==
    << Str("rpc.system"), Str("rpc.service"), Str("rpc.method"), Str("rpc.grpc.status_code") >>

GenericKeys == << Str("service.name"), Str("operation") >>

\* the attribute keys the service of that name is given
ShapeOf(name) ==
    CASE name \in { "frontend-proxy", "api-gateway" } -> HttpKeys
      [] name \in { "product-catalog", "cart", "payment-service" } -> RpcKeys
      [] name \in { "recommendation", "kafka", "analytics-service" } -> GenericKeys

\* the service a batch document is from, as its scope names it
ServiceOf(data) == data.resource_spans[1].scope_spans[1].scope.name

\* C27: the span of every document returned by generate_batch_traces has
\* the attribute keys of one shape, the shape of its service: the HTTP keys
\* for frontend-proxy and api-gateway, the RPC keys for product-catalog,
\* cart and payment-service, the generic keys for recommendation, kafka and
\* analytics-service; and so for every service of the pool at every state of
\* the random stream (looked at once, in the state before any generator is
\* built).
C27_AttributeShapeByService ==
    /\ \A i \in DOMAIN gens : \A k \in DOMAIN hist[i] :
          hist[i][k].op = "generate_batch_traces" =>
              \A n \in DOMAIN hist[i][k].ret :
                  \E s \in DOMAIN SERVICES :
                      /\ ServiceOf(hist[i][k].ret[n]) = Str(Join(SERVICES[s]))
                      /\ KeysOf(OnlySpan(hist[i][k].ret[n]).attributes)
                            = ShapeOf(Join(SERVICES[s]))
    /\ gens = <<>> =>
          /\ { Join(SERVICES[s]) : s \in DOMAIN SERVICES }
                = { "frontend-proxy", "api-gateway", "product-catalog", "cart",
                    "payment-service", "recommendation", "kafka", "analytics-service" }
          /\ \A s \in DOMAIN SERVICES : \A rng \in 0..(RngModulus - 1) :
                KeysOf(SpanAttributes(SERVICES[s], rng).v) = ShapeOf(Join(SERVICES[s]))

\* batches returned so far hold a span of each of the three shapes
C27_Witness ==
    \A shape \in { HttpKeys, RpcKeys, GenericKeys } :
        \E i \in DOMAIN gens : \E k \in DOMAIN hist[i] :
            /\ hist[i][k].op = "generate_batch_traces"
            /\ \E n \in DOMAIN hist[i][k].ret :
                  KeysOf(OnlySpan(hist[i][k].ret[n]).attributes) = shape

\* the spans of a document of one resource group and one scope, in order
SpanList(data) == data.resource_spans[1].scope_spans[1].spans

\* the span id drawn fourth from the stream s: after the trace id, the
\* ingress span id and the egress span id
FourthDraw(s) == [n |-> 8, v |-> RngStep(RngStep(RngStep(RngStep(s))))]

\* C28: generate_single_trace returns one document of one resource group
\* and one scope with exactly two spans, the egress span and the ingress
\* span, of one trace id; the parent id of the egress span is the span id of
\* the ingress span, and the parent id of the ingress span is the id drawn
\* fourth from the stream, which is the span id of no span of the document.
C28_SingleTraceTwoLinkedSpans ==
    \A i \in DOMAIN gens : \A k \in DOMAIN hist[i] :
        hist[i][k].op = "generate_single_trace" =>
            /\ Len(hist[i][k].ret.resource_spans) = 1
            /\ Len(hist[i][k].ret.resource_spans[1].scope_spans) = 1
            /\ Len(SpanList(hist[i][k].ret)) = 2
            /\ SpanList(hist[i][k].ret)[1].name = Str("router frontend egress")
            /\ SpanList(hist[i][k].ret)[2].name = Str("ingress")
            /\ SpanList(hist[i][k].ret)[1].trace_id = SpanList(hist[i][k].ret)[2].trace_id
            /\ SpanList(hist[i][k].ret)[1].trace_id.n = 16
            /\ SpanList(hist[i][k].ret)[1].parent_span_id
                  = SpanList(hist[i][k].ret)[2].span_id
            /\ SpanList(hist[i][k].ret)[2].parent_span_id = FourthDraw(hist[i][k].pre)
            /\ \A n \in DOMAIN SpanList(hist[i][k].ret) :
                  SpanList(hist[i][k].ret)[n].span_id
                     # SpanList(hist[i][k].ret)[2].parent_span_id

\* generate_single_trace called twice on one generator: two documents of
\* different trace ids
C28_Witness ==
    /\ gens # <<>>
    /\ gens[1].kind = "traces"
    /\ Len(hist[1]) = 2
    /\ hist[1][1].op = "generate_single_trace"
    /\ hist[1][2].op = "generate_single_trace"
    /\ SpanList(hist[1][1].ret)[1].trace_id # SpanList(hist[1][2].ret)[1].trace_id
    /\ SpanList(hist[1][2].ret)[2].span_id # SpanList(hist[1][2].ret)[1].span_id

\* the data fields of a Metric, of which a message holds one
DataFields == { "gauge", "sum", "histogram", "exponential_histogram", "summary" }

IsMetricOp(op) == op \in UnscaledOps \cup { "generate_gauge" }

\* the metrics of a document of one resource group and one scope, in order
MetricList(data) == data.resource_metrics[1].scope_metrics[1].metrics

\* how many metrics of the document carry the data field
CountOf(data, field) ==
    Cardinality({ n \in DOMAIN MetricList(data) : field \in DOMAIN MetricList(data)[n] })

\* C30: every metric of every document returned by the metrics generator
\* carries exactly one of the data fields gauge, sum, histogram,
\* exponential_histogram and summary; generate_mixed returns one document
\* of one resource group and one scope with exactly three metrics, one
\* gauge, one sum and one histogram.
C30_OneDataKindPerMetric ==
    \A i \in DOMAIN gens : \A k \in DOMAIN hist[i] :
        /\ IsMetricOp(hist[i][k].op) =>
              \A metric \in Metrics(hist[i][k].ret) :
                  Cardinality(DOMAIN metric \cap DataFields) = 1
        /\ hist[i][k].op = "generate_mixed" =>
              /\ Len(hist[i][k].ret.resource_metrics) = 1
              /\ Len(hist[i][k].ret.resource_metrics[1].scope_metrics) = 1
              /\ Len(MetricList(hist[i][k].ret)) = 3
              /\ CountOf(hist[i][k].ret, "gauge") = 1
              /\ CountOf(hist[i][k].ret, "sum") = 1
              /\ CountOf(hist[i][k].ret, "histogram") = 1

\* generate_mixed and then generate_exponential_histogram on one generator
C30_Witness ==
    /\ gens # <<>>
    /\ gens[1].kind = "metrics"
    /\ Len(hist[1]) = 2
    /\ hist[1][1].op = "generate_mixed"
    /\ Len(MetricList(hist[1][1].ret)) = 3
    /\ hist[1][2].op = "generate_exponential_histogram"
    /\ \E metric \in Metrics(hist[1][2].ret) : "exponential_histogram" \in DOMAIN metric

(***************************************************************************)
(* Properties of the estimates (EstimateSpec).                             *)
(***************************************************************************)
\* C14: of two estimates taken for the same signal type at target sizes
\* T1 < T2, both at least 1 MB, the one for T2 is at least the one for T1.
C14_EstimateMonotonic ==
    \A a, b \in DOMAIN hist :
        (/\ hist[a].signal = hist[b].signal
         /\ Kibi <= hist[a].size_mb
         /\ hist[a].size_mb < hist[b].size_mb)
        => hist[a].count <= hist[b].count

\* the logs estimates for 1 MB (699 records) and for 2 MB (1398 records)
C14_Witness ==
    /\ pc = "estimates"
    /\ Len(hist) = 2
    /\ hist[1] = [signal |-> "logs", size_mb |-> Kibi, count |-> 699]
    /\ hist[2] = [signal |-> "logs", size_mb |-> 2 * Kibi, count |-> 1398]

(***************************************************************************)
(* Properties of make_attribute (AttrSpec).                                *)
(***************************************************************************)
\* the variants set in an AnyValue
Variants(any_value) == DOMAIN any_value \ { "msg" }

HasRaised(ret) == "raised" \in DOMAIN ret

\* the attribute ret has the given key and a value with the one variant set
\* to v
IsAttribute(ret, key, variant, v) ==
    /\ ~HasRaised(ret)
    /\ ret.msg = "KeyValue"
    /\ ret.key = Str(key)
    /\ Variants(ret.value) = { variant }
    /\ ret.value[variant] = v

\* C19: make_attribute(key, v) returns a key-value pair whose value has
\* exactly one variant set, the one of v's kind (string for a str, integer
\* for an int, boolean for a bool), and raises for a value of another kind.
\* isinstance(v, int) is tested before isinstance(v, bool) and holds of
\* every bool, so a bool gets the integer variant and this does not hold.
C19_AttributeVariantMatchesKind ==
    \A k \in DOMAIN hist :
        CASE hist[k].value.t = "str" ->
                IsAttribute(hist[k].ret, hist[k].key, "string_value", hist[k].value.v)
          [] hist[k].value.t = "int" ->
                IsAttribute(hist[k].ret, hist[k].key, "int_value", I64(hist[k].value.v))
          [] hist[k].value.t = "bool" ->
                IsAttribute(hist[k].ret, hist[k].key, "bool_value", hist[k].value.v)
          [] OTHER -> HasRaised(hist[k].ret)

(***************************************************************************)
(* Properties of the exporters (ExportSpec).                               *)
(***************************************************************************)
IsListInput == call.input.type \in { "list", "batch_logs", "batch_traces" }

\* the elements of the list handed over
Items == Value(call.input).items

AllOfType(items, type) == \A k \in DOMAIN items : items[k].msg = type

GroupsField(type) ==
    CASE type = "LogsData" -> "resource_logs"
      [] type = "TracesData" -> "resource_spans"
      [] type = "MetricsData" -> "resource_metrics"

GroupType(type) ==
    CASE type = "LogsData" -> "ResourceLogs"
      [] type = "TracesData" -> "ResourceSpans"
      [] type = "MetricsData" -> "ResourceMetrics"

\* the groups of items[lo .. hi], in order
RECURSIVE GroupsOf(_, _, _, _)
GroupsOf(items, field, lo, hi) ==
    IF lo > hi THEN <<>>
    ELSE IF lo = hi THEN items[lo][field]
    ELSE GroupsOf(items, field, lo, (lo + hi) \div 2)
         \o GroupsOf(items, field, ((lo + hi) \div 2) + 1, hi)

\* one container message of the type holding the groups: each group an
\* entry of field 1, in order
Container(type, groups) ==
    BinaryFile([k \in DOMAIN groups |->
                   [num |-> 1, payload |-> PbPayload(GroupType(type), groups[k])]])

MergeCase(type) ==
    /\ call.fn = "export_to_protobuf"
    /\ IsListInput
    /\ Len(Items) > 0
    /\ AllOfType(Items, type)

\* C6: export_to_protobuf of a non-empty list of logs documents (or of
\* traces documents) writes one container whose groups are the documents'
\* groups, concatenated in the order of the list; the 19 documents of the
\* default traces batch give 19 groups.
C6_ProtobufListMerged ==
    \A type \in { "LogsData", "TracesData" } :
        MergeCase(type) =>
            /\ ~call.raised
            /\ opened = << HarnessPath >>
            /\ fs[HarnessPath] =
                  Container(type, GroupsOf(Items, GroupsField(type), 1, Len(Items)))
            /\ call.input.type = "batch_traces" =>
                  Len(fs[HarnessPath].entries) = DefaultTraceCount

C6_Witness ==
    /\ call.fn = "export_to_protobuf"
    /\ call.input.type = "batch_traces"
    /\ Len(Items) = DefaultTraceCount
    /\ \A k \in DOMAIN Items : Len(Items[k].resource_spans) = 1
    /\ Len(fs[HarnessPath].entries) = DefaultTraceCount

\* C7: export_to_protobuf of a list of two or more documents of one signal
\* type, metrics included, writes a container holding the groups of every
\* document.  A list of metrics documents takes the branch that serializes
\* its first element only, so this does not hold.
C7_NoDocumentDropped ==
    \A type \in { "LogsData", "TracesData", "MetricsData" } :
        (MergeCase(type) /\ Len(Items) >= 2) =>
            /\ ~call.raised
            /\ fs[HarnessPath] =
                  Container(type, GroupsOf(Items, GroupsField(type), 1, Len(Items)))

\* C8: export_to_protobuf of an empty list writes nothing: no path is
\* opened and every file, the target included, is as it was.
C8_EmptyListNoWrite ==
    (call.fn = "export_to_protobuf" /\ IsListInput /\ Len(Items) = 0) =>
        /\ ~call.raised
        /\ opened = <<>>
        /\ fs[HarnessPath] = call.before
        /\ \A n \in FileNames \ { HarnessPath } : fs[n] = InitialFiles[n]

C8_Witness ==
    /\ call.fn = "export_to_protobuf"
    /\ call.input = [type |-> "list", ids |-> <<>>]
    /\ call.before = Earlier
    /\ fs[HarnessPath] = Earlier

\* the JSON of a document with no white space between its tokens
Compact(data) ==
    SelectSeq(MessageToJson(data, 2).text, LAMBDA c : c \notin { " ", "\n" })

\* the lines of items[lo .. hi], each ended by a newline
RECURSIVE CompactLines(_, _, _)
CompactLines(items, lo, hi) ==
    IF lo > hi THEN <<>>
    ELSE IF lo = hi THEN Compact(items[lo]) \o << "\n" >>
    ELSE CompactLines(items, lo, (lo + hi) \div 2)
         \o CompactLines(items, ((lo + hi) \div 2) + 1, hi)

\* C9: export_to_jsonl of a list of k documents writes k lines, each ended
\* by a newline, the i-th being the JSON of the i-th document with no
\* newline and no white space between its tokens; the default logs batch
\* gives 81 lines, each an object with a resourceLogs field.  Every line
\* keeps the space json.dumps puts after the colon of a key, so this does
\* not hold.
C9_JsonlCompactLines ==
    (/\ call.fn = "export_to_jsonl"
     /\ \A k \in DOMAIN Items : IsMessage(Items[k])) =>
        /\ ~call.raised
        /\ fs[HarnessPath] = TextFile(CompactLines(Items, 1, Len(Items)))
        /\ call.input.type = "batch_logs" =>
              /\ Len(Items) = DefaultLogCount
              /\ \A k \in DOMAIN Items :
                    SubSeq(Compact(Items[k]), 1, 5) = << "{", "\"", "resourceLogs", "\"", ":" >>

\* C10: an exporter that raises leaves the target file as it was.
\* export_to_jsonl opens (and so truncates) the file before it encodes the
\* first document and writes line by line, so this does not hold.
C10_WriteAllOrNothing ==
    (call.fn # "none" /\ call.raised) => fs[HarnessPath] = call.before

\* the indices of the chunks of text that are c, in order
IndicesOf(text, c) ==
    LET indexed == [i \in 1..Len(text) |-> [i |-> i, c |-> text[i]]]
        found == SelectSeq(indexed, LAMBDA e : e.c = c)
    IN  [j \in 1..Len(found) |-> found[j].i]

\* the lines of a text, each without the newline that ends it
Lines(text) ==
    LET ends == IndicesOf(text, "\n")
    IN  [k \in 1..Len(ends) |->
            SubSeq(text, (IF k = 1 THEN 0 ELSE ends[k - 1]) + 1, ends[k] - 1)]

\* what a JSON decoder reads of text[lo .. hi], inside telling whether
\* text[lo] lies in a string: white space between tokens is skipped and
\* white space inside a string is part of the string
RECURSIVE Scan(_, _, _, _)
Scan(text, lo, hi, inside) ==
    IF lo > hi THEN [out |-> <<>>, inside |-> inside]
    ELSE IF lo = hi
    THEN IF text[lo] = Quote THEN [out |-> << Quote >>, inside |-> ~inside]
         ELSE IF ~inside /\ text[lo] \in { " ", "\n" } THEN [out |-> <<>>, inside |-> inside]
         ELSE [out |-> << text[lo] >>, inside |-> inside]
    ELSE LET first == Scan(text, lo, (lo + hi) \div 2, inside)
             rest == Scan(text, ((lo + hi) \div 2) + 1, hi, first.inside)
         IN  [out |-> first.out \o rest.out, inside |-> rest.inside]

\* decoding the text gives the document data: the decoder reads of it what
\* it reads of the JSON of data
DecodesTo(text, data) ==
    Scan(text, 1, Len(text), FALSE).out
        = Scan(MessageToJson(data, 2).text, 1, Len(MessageToJson(data, 2).text), FALSE).out

\* C20: export_to_jsonl writes for every document, also for one with a
\* string value that holds two consecutive spaces, a line that decodes to
\* that document.  The replacement of two spaces by nothing is made on the
\* whole line, strings included, so this does not hold.
C20_JsonlLineDecodesToInput ==
    (/\ call.fn = "export_to_jsonl"
     /\ \A k \in DOMAIN Items : IsMessage(Items[k])) =>
        /\ ~call.raised
        /\ Len(Lines(fs[HarnessPath].text)) = Len(Items)
        /\ \A k \in DOMAIN Items : DecodesTo(Lines(fs[HarnessPath].text)[k], Items[k])

(***************************************************************************)
(* Properties of the log records (SeveritySpec).                           *)
(***************************************************************************)
\* the text the severity number stands for
SeverityTextAsClaimed(number) ==
    CASE number = SEVERITY_NUMBER_DEBUG -> "DEBUG"
      [] number = SEVERITY_NUMBER_INFO -> "INFO"
      [] number = SEVERITY_NUMBER_WARN -> "WARN"
      [] number = SEVERITY_NUMBER_ERROR -> "ERROR"
      [] OTHER -> "INFO"

\* C29: _severity_text gives "DEBUG", "INFO", "WARN" and "ERROR" for the
\* severity numbers DEBUG, INFO, WARN and ERROR and "INFO" for every other
\* number; every log record made, by _make_log_record with any severity
\* number, by generate_single_log and by generate_batch_logs, is a LogRecord
\* (nothing was raised) whose severity text is that text of its severity
\* number.
C29_SeverityTextOfNumber ==
    /\ \A number \in Severities : _severity_text(number) = SeverityTextAsClaimed(number)
    /\ \A k \in DOMAIN hist : \A n \in DOMAIN hist[k].records :
          /\ hist[k].records[n].msg = "LogRecord"
          /\ hist[k].op = "_make_log_record" =>
                hist[k].records[n].severity_number = hist[k].severity
          /\ hist[k].records[n].severity_text
                = Str(SeverityTextAsClaimed(hist[k].records[n].severity_number))

\* a record made with a number outside the mapping, then a generated batch
C29_Witness ==
    /\ Len(hist) = 2
    /\ hist[1].op = "_make_log_record"
    /\ hist[1].severity = MaxSeverity
    /\ hist[1].records[1].severity_text = Str("INFO")
    /\ hist[1].records[1].trace_id.n = 16
    /\ hist[2].op = "generate_batch_logs"
    /\ Len(hist[2].records) = MaxCount

====
